---------------------------- MODULE Spec2Model ----------------------------
(***************************************************************************)
(* A model of joi-of-cql (index.js): the CQL layer on top of the joi       *)
(* validation engine.  The state is a heap of joi schema objects and the   *)
(* log of the calls made so far; every method is an operator that returns  *)
(* both the receiver as the call leaves it (`this`) and the value the call *)
(* returns (`ret`), so that copy-on-write is something the model can fail. *)
(***************************************************************************)
EXTENDS Integers, Sequences, FiniteSets, TLC

VARIABLES heap, calls

vars == <<heap, calls>>

(***************************************************************************)
(* Bounds of the model.                                                    *)
(***************************************************************************)
MaxCalls == 3
MaxMetaCalls == 4
MaxDefaultCalls == 2
MaxJsonCalls == 3
MaxCollectionCalls == 3
MaxCreateCalls == 2
MaxSerializeCalls == 4
MaxBuilt == 1
MaxNumberCalls == 2
MaxDispatchCalls == 2
MaxDispatched == 1
MaxAliasCalls == 3
MaxKeyCalls == 2
MaxLen == 2
MaxClock == 1
MaxRandom == 1

(***************************************************************************)
(* JavaScript values.  Every value is a record tagged by `t`.              *)
(***************************************************************************)
Undefined == [t |-> "undefined"]
Null == [t |-> "null"]
Str(s) == [t |-> "string", s |-> s]
Bool(b) == [t |-> "boolean", b |-> b]
Num(n) == [t |-> "number", n |-> n]
Arr(a) == [t |-> "array", a |-> a]
Obj(o) == [t |-> "object", o |-> o]
Throw(e) == [t |-> "throw", e |-> e]
Ref(i) == [t |-> "ref", ref |-> i]

EmptyArray == Arr(<<>>)
EmptyObject == Obj(<<>>)

IsThrow(x) == x.t = "throw"
IsJoi(x) == x.t = "joi"
IsRef(x) == x.t = "ref"
IsArray(x) == x.t = "array"
IsString(x) == x.t = "string"
IsNumber(x) == x.t = "number"
IsObject(x) == x.t = "object"

\* ToBoolean of the language: the falsy values are undefined, null, '', false, 0.
Truthy(x) ==
    CASE x.t = "undefined" -> FALSE
      [] x.t = "null" -> FALSE
      [] x.t = "string" -> x.s # ""
      [] x.t = "boolean" -> x.b
      [] x.t = "number" ->
             IF "n" \in DOMAIN x THEN x.n # 0
             ELSE x.kind # "nan" /\ ~(x.kind = "finite" /\ x.int = <<0>> /\ x.frac = <<>>)
      [] OTHER -> TRUE

\* a ?? b
Or_nullish(a, b) == IF a.t \in {"undefined", "null"} THEN b ELSE a

\* a || b
Or(a, b) == IF Truthy(a) THEN a ELSE b

\* key in m, for an object m
HasKey(m, key) == key \in DOMAIN m.o

\* m[key]: a TypeError on undefined and null, undefined when m has no such key.
Get(m, key) ==
    IF m.t \in {"undefined", "null"} THEN Throw("TypeError")
    ELSE IF m.t = "object" /\ key \in DOMAIN m.o THEN m.o[key]
    ELSE Undefined

\* options && options.default
OptionsDefault(options) == IF Truthy(options) THEN Get(options, "default") ELSE options

\* The decimal digits, for the strings the model builds.
Digit(n) == <<"0", "1", "2", "3", "4", "5", "6", "7", "8", "9">>[n + 1]

(***************************************************************************)
(* Numbers beyond the digits: a finite number is its sign, the digits of   *)
(* its integer part (no leading zero, <<0>> for zero) and the digits of    *)
(* its fraction (no trailing zero, <<>> for an integer).  Infinity and NaN *)
(* are values of their own.                                                *)
(***************************************************************************)
Finite(neg, int_, frac) ==
    [t |-> "number", kind |-> "finite", neg |-> neg, int |-> int_, frac |-> frac]
Infinity(neg) == [t |-> "number", kind |-> "infinite", neg |-> neg]
NaN == [t |-> "number", kind |-> "nan"]

\* A number of the model in that form, the single digits Num(n) included.
Decimal(v) == IF "n" \in DOMAIN v THEN Finite(FALSE, <<v.n>>, <<>>) ELSE v

\* a < b and a <= b on the digits of two naturals.
DigitsLess(a, b) ==
    \/ Len(a) < Len(b)
    \/ /\ Len(a) = Len(b)
       /\ \E i \in 1..Len(a) : a[i] < b[i] /\ \A j \in 1..(i - 1) : a[j] = b[j]
DigitsLessEq(a, b) == a = b \/ DigitsLess(a, b)

\* x <= y on two finite numbers, y an integer.
LessEqInteger(x, y) ==
    IF x.neg /\ ~y.neg THEN TRUE
    ELSE IF ~x.neg /\ y.neg THEN x.int = <<0>> /\ x.frac = <<>> /\ y.int = <<0>>
    ELSE IF ~x.neg THEN DigitsLess(x.int, y.int) \/ (x.int = y.int /\ x.frac = <<>>)
    ELSE DigitsLessEq(y.int, x.int)

\* y <= x on two finite numbers, y an integer.
GreaterEqInteger(x, y) ==
    IF ~x.neg /\ y.neg THEN TRUE
    ELSE IF x.neg /\ ~y.neg THEN x.int = <<0>> /\ x.frac = <<>> /\ y.int = <<0>>
    ELSE IF ~x.neg THEN DigitsLessEq(y.int, x.int)
    ELSE DigitsLess(x.int, y.int) \/ (x.int = y.int /\ x.frac = <<>>)

\* 0x7fffffff and -0x80000000
Int32Max == Finite(FALSE, <<2, 1, 4, 7, 4, 8, 3, 6, 4, 7>>, <<>>)
Int32Min == Finite(TRUE, <<2, 1, 4, 7, 4, 8, 3, 6, 4, 8>>, <<>>)

\* Number.MAX_SAFE_INTEGER, 2^53 - 1
MaxSafeInteger == Finite(FALSE, <<9, 0, 0, 7, 1, 9, 9, 2, 5, 4, 7, 4, 0, 9, 9, 1>>, <<>>)

\* Number.isSafeInteger(x)
IsSafeInteger(x) ==
    /\ x.kind = "finite"
    /\ x.frac = <<>>
    /\ DigitsLessEq(x.int, MaxSafeInteger.int)

\* limit <= x and x <= limit, as the min and max rules compare: an infinity
\* is beyond every limit on its side, NaN compares false.
AtLeast(x, limit) ==
    CASE x.kind = "finite" -> GreaterEqInteger(x, limit)
      [] x.kind = "infinite" -> ~x.neg
      [] OTHER -> FALSE
AtMost(x, limit) ==
    CASE x.kind = "finite" -> LessEqInteger(x, limit)
      [] x.kind = "infinite" -> x.neg
      [] OTHER -> FALSE

(***************************************************************************)
(* Strings read character by character.  A string that the engine reads as *)
(* a numeral is the joining of its characters; every other string of the   *)
(* model is one piece that is no digit, no sign, no dot and no space.      *)
(***************************************************************************)
\* U+2212, the minus sign that is not the dash.
UnicodeMinus == "\\u2212"
LineBreak == "\n"

RECURSIVE Join(_)
Join(cs) == IF cs = <<>> THEN "" ELSE Head(cs) \o Join(Tail(cs))

\* The characters of a decimal numeral, with its dash when negative.
Numeral(neg, digits) ==
    (IF neg THEN <<"-">> ELSE <<>>) \o [i \in 1..Len(digits) |-> Digit(digits[i])]

\* 2^63 - 1 and -2^63, the bounds of a 64 bit integer, and 2^31 - 1.
Int64MaxDigits == <<9, 2, 2, 3, 3, 7, 2, 0, 3, 6, 8, 5, 4, 7, 7, 5, 8, 0, 7>>
Int64MinDigits == <<9, 2, 2, 3, 3, 7, 2, 0, 3, 6, 8, 5, 4, 7, 7, 5, 8, 0, 8>>
Int64Beyond == <<9, 2, 2, 3, 3, 7, 2, 0, 3, 6, 8, 5, 4, 7, 7, 5, 8, 0, 9>>

\* The strings of the model that are read by their characters: those of the
\* int64 and int fixtures, and the strings around the bounds.
NumeralTexts ==
    {<<>>,
     <<"0">>, <<"1">>, <<"-", "1">>, <<"+", "1">>, <<" ", "1">>, <<"1", " ">>,
     <<"1", ".", "5">>, <<"1", ".", "0">>, <<"1", ".">>, <<".", "5">>, <<".">>, <<"-">>,
     <<"x", LineBreak, "1">>, <<"1", LineBreak, "x">>, <<"1", "x">>,
     <<"1", ",", "0", "0", "0">>,
     Numeral(FALSE, Int32Max.int), Numeral(TRUE, Int32Max.int),
     Numeral(FALSE, Int32Min.int), Numeral(TRUE, Int32Min.int),
     Numeral(TRUE, <<2, 1, 4, 7, 4, 8, 3, 6, 4, 9>>),
     Numeral(FALSE, MaxSafeInteger.int), Numeral(TRUE, MaxSafeInteger.int),
     Numeral(FALSE, Int64MaxDigits), Numeral(TRUE, Int64MinDigits),
     Numeral(FALSE, Int64MinDigits), Numeral(TRUE, Int64Beyond),
     Numeral(TRUE, Int64MinDigits \o <<0>>), Numeral(FALSE, Int64MaxDigits \o <<0>>),
     Numeral(FALSE, <<0, 0, 0, 0, 0, 0, 0, 0, 0, 0, 0, 0, 0, 0, 0, 0, 0, 0, 0, 1>>),
     <<UnicodeMinus>> \o Numeral(FALSE, Int64MinDigits),
     <<UnicodeMinus, "9", ",", "2", "2", "3", ",", "3", "7", "2", ",", "0", "3", "6", ",",
       "8", "5", "4", ",", "7", "7", "5", ",", "8", "0", "8">>}

\* The characters of a string, from the readings of it that were found.
CharsIn(found, s) == IF found = {} THEN <<s>> ELSE CHOOSE cs \in found : TRUE
CharsOf(s) == CharsIn({cs \in NumeralTexts : Join(cs) = s}, s)

IsDigitChar(c) == c \in {Digit(d) : d \in 0..9}
DigitOf(c) == CHOOSE d \in 0..9 : Digit(d) = c
IsSpaceChar(c) == c \in {" ", LineBreak}
AllDigits(cs) == \A i \in 1..Len(cs) : IsDigitChar(cs[i])

\* The lines of a string: under the m flag ^ and $ match at every line break.
RECURSIVE Lines(_)
Lines(cs) ==
    IF \E i \in 1..Len(cs) : cs[i] = LineBreak
    THEN LET i == CHOOSE j \in 1..Len(cs) :
                      cs[j] = LineBreak /\ \A h \in 1..(j - 1) : cs[h] # LineBreak
         IN  <<SubSeq(cs, 1, i - 1)>> \o Lines(SubSeq(cs, i + 1, Len(cs)))
    ELSE <<cs>>

\* How many digits a sequence of characters starts with.
LeadingDigits(cs) ==
    CHOOSE k \in 0..Len(cs) :
        /\ AllDigits(SubSeq(cs, 1, k))
        /\ (k = Len(cs) \/ ~IsDigitChar(cs[k + 1]))

\* A line against \-?\d{low,high} and against \-?\d+(\.\d+)? between ^ and $;
\* high = 0 stands for no upper limit.
CountedDigits(digits, low, high) ==
    /\ AllDigits(digits)
    /\ Len(digits) >= low
    /\ (high = 0 \/ Len(digits) <= high)
MatchesInteger(line, low, high) ==
    CountedDigits(IF line # <<>> /\ Head(line) = "-" THEN Tail(line) ELSE line, low, high)
Fraction(rest) == rest = <<>> \/ (Head(rest) = "." /\ Len(rest) >= 2 /\ AllDigits(Tail(rest)))
DigitsAndFraction(digits, n) == n >= 1 /\ Fraction(SubSeq(digits, n + 1, Len(digits)))
MatchesUndashed(digits) == DigitsAndFraction(digits, LeadingDigits(digits))
MatchesDecimal(line) ==
    MatchesUndashed(IF line # <<>> /\ Head(line) = "-" THEN Tail(line) ELSE line)

\* regex.test(s) for the three regular expressions of index.js, all of them
\* with the m flag.
LineTest(re, line) ==
    CASE re = "^\\-?\\d{1,19}$" -> MatchesInteger(line, 1, 19)
      [] re = "^\\-?\\d+$" -> MatchesInteger(line, 1, 0)
      [] re = "^\\-?\\d+(\\.\\d+)?$" -> MatchesDecimal(line)
      [] OTHER -> FALSE
SomeLine(re, lines) == \E i \in 1..Len(lines) : LineTest(re, lines[i])
RegexTest(re, s) == SomeLine(re, Lines(CharsOf(s)))

\* Digits without leading zeros, <<0>> for none; without trailing zeros.
RECURSIVE StripLeading(_), StripTrailing(_)
StripLeading(ds) ==
    IF ds = <<>> THEN <<0>>
    ELSE IF Head(ds) = 0 /\ Len(ds) > 1 THEN StripLeading(Tail(ds))
    ELSE ds
StripTrailing(ds) ==
    IF ds # <<>> /\ ds[Len(ds)] = 0 THEN StripTrailing(SubSeq(ds, 1, Len(ds) - 1)) ELSE ds

RECURSIVE TrimLeft(_), TrimRight(_)
TrimLeft(cs) == IF cs # <<>> /\ IsSpaceChar(Head(cs)) THEN TrimLeft(Tail(cs)) ELSE cs
TrimRight(cs) ==
    IF cs # <<>> /\ IsSpaceChar(cs[Len(cs)]) THEN TrimRight(SubSeq(cs, 1, Len(cs) - 1)) ELSE cs

\* A sequence of characters without the sign it starts with; the number of
\* digits after the dot that follows n digits, 0 when no dot follows.
Unsigned(t) == IF t # <<>> /\ Head(t) \in {"-", "+"} THEN Tail(t) ELSE t
FractionDigits(u, n) ==
    IF n < Len(u) /\ u[n + 1] = "." THEN LeadingDigits(SubSeq(u, n + 2, Len(u))) ELSE 0

\* parseFloat(s): the longest decimal literal after the leading white space,
\* NaN when there is none.  The strings of the model hold no exponent and do
\* not spell Infinity.
LiteralValue(neg, u, n, m) ==
    IF n = 0 /\ m = 0 THEN NaN
    ELSE Finite(neg,
                StripLeading([i \in 1..n |-> DigitOf(u[i])]),
                StripTrailing([i \in 1..m |-> DigitOf(u[n + 1 + i])]))
LiteralOf(neg, u, n) == LiteralValue(neg, u, n, FractionDigits(u, n))
ParseSigned(neg, u) == LiteralOf(neg, u, LeadingDigits(u))
ParseTrimmed(t) == ParseSigned(t # <<>> /\ Head(t) = "-", Unsigned(t))
parseFloat(s) == ParseTrimmed(TrimLeft(CharsOf(s)))

\* isFinite(s) of a string: Number(s) is a number, which asks the whole
\* string, white space at both ends apart, to be empty or a decimal literal.
WholeLiteral(u, n, m) ==
    /\ n + m >= 1
    /\ n + (IF n < Len(u) /\ u[n + 1] = "." THEN 1 + m ELSE 0) = Len(u)
WholeOf(u, n) == WholeLiteral(u, n, FractionDigits(u, n))
WholeUnsigned(u) == WholeOf(u, LeadingDigits(u))
NumericTrimmed(t) == t = <<>> \/ WholeUnsigned(Unsigned(t))
isFinite(s) == NumericTrimmed(TrimRight(TrimLeft(CharsOf(s))))

\* joi.number() on a string, under the convert option: parseFloat of a
\* string that is a number as a whole, NaN otherwise.
ConvertParsed(parsed, s) == IF parsed = NaN \/ ~isFinite(s) THEN NaN ELSE parsed
toNumber(value) == IF IsString(value) THEN ConvertParsed(parseFloat(value.s), value.s) ELSE value

\* The rules of a number schema on a number, in the order they were given.
NumberRules(schema, n) ==
    /\ n.kind # "nan"
    /\ ("integer" \in schema.rules => IsSafeInteger(n))
    /\ (schema.min # Undefined => AtLeast(n, schema.min))
    /\ (schema.max # Undefined => AtMost(n, schema.max))
NumberResult(schema, converted) ==
    [t |-> "result",
     error |-> ~(IsNumber(converted) /\ NumberRules(schema, Decimal(converted))),
     value |-> converted]

\* arguments[i], undefined past arguments.length
Arg(args, i) == IF i <= Len(args) THEN args[i] ELSE Undefined

(***************************************************************************)
(* The joi engine, as far as index.js calls it.                            *)
(***************************************************************************)
\* A fresh schema of the given type: no annotation, no rename, no default, and
\* the type's own _validate.
any(type) ==
    [t |-> "joi", type |-> type, meta |-> <<>>, renames |-> <<>>, children |-> Null,
     patterns |-> <<>>, rules |-> {}, tries |-> <<>>, default |-> Undefined,
     jsonOnValidate |-> FALSE, valids |-> {}, items |-> <<>>, sparse |-> FALSE,
     unique |-> FALSE, strict |-> FALSE, peers |-> <<>>, allowUnknown |-> FALSE,
     regex |-> "", min |-> Undefined, max |-> Undefined, allowOnly |-> FALSE]

\* joi.object(), joi.string(), joi.number()
object == any("object")
string == any("string")
number == any("number")

\* any.meta(m): a clone with m appended to the annotations.
meta(this, m) ==
    [this |-> this, ret |-> [this EXCEPT !.meta = Append(@, m)]]

\* any.describe(): the description carries `meta` only when there is one.
describe(schema) ==
    IF Len(schema.meta) > 0
    THEN Obj("type" :> Str(schema.type) @@ "meta" :> Arr(schema.meta))
    ELSE Obj("type" :> Str(schema.type))

\* object.rename(from, to): asserts its arguments, then a clone with the pair added.
rename(this, args) ==
    LET from == Arg(args, 1)
        to == Arg(args, 2)
    IN  IF ~IsString(from) \/ ~IsString(to)
        THEN [this |-> this, ret |-> Throw("AssertionError")]
        ELSE IF to = from \/ \E i \in 1..Len(this.renames) : this.renames[i].from = from.s
        THEN [this |-> this, ret |-> Throw("AssertionError")]
        ELSE [this |-> this,
              ret |-> [this EXCEPT !.renames = Append(@, [from |-> from.s, to |-> to.s])]]

\* any.default(value): a clone with the default set.  A function marked isJoi
\* passes for a reference: it is stored as it is and called on an absent value.
default(this, value) ==
    [this |-> this, ret |-> [this EXCEPT !.default = value]]

\* schema.rule(): a clone with one more rule (integer, iso, guid).
rule(this, name) == [this EXCEPT !.rules = @ \cup {name}]

\* any.valid(value): a clone that accepts value and nothing else.
valid(this, value) == [this EXCEPT !.valids = @ \cup {value}, !.allowOnly = TRUE]

\* Cast.schema(config): a schema stays what it is, a plain value becomes the
\* schema that accepts this value only.
compile(config) == IF IsJoi(config) THEN config ELSE valid(any("any"), config)

\* object.keys(schema): a clone whose children are the fields of `schema`.
keys(this, schema) ==
    LET ks == DOMAIN schema.o
        RECURSIVE entries(_)
        entries(S) ==
            IF S = {} THEN <<>>
            ELSE LET k == CHOOSE x \in S : TRUE
                 IN  <<Obj("key" :> Str(k) @@ "schema" :> compile(schema.o[k]))>>
                         \o entries(S \ {k})
    IN  [this EXCEPT !.children = Arr(entries(ks))]

\* object.pattern(regex, schema): a clone that validates every field whose
\* name matches regex, and is no declared child, against schema.
pattern(this, re, schema) ==
    [this EXCEPT !.patterns = Append(@, [regex |-> re, rule |-> schema])]

\* The field names of the model that are all digits.
DigitNames == {"0", "1", "007"}

\* regex.test(key), for the field names of the model: /^\d+$/ holds of the
\* names that are all digits, /[\-\w]+/ of every name that holds a word
\* character or a dash, which all of them do but the empty name.
PatternTest(re, key) ==
    IF re = "^\\d+$" THEN key \in DigitNames ELSE key # ""

\* any.allow(value) keeping the _validate installed on the receiver.
allow_wrapped(this, value) == [this EXCEPT !.valids = @ \cup {value}]

\* any.allow(value): a clone that accepts value whatever the type says.  The
\* clone is a new object of the type's prototype: a _validate installed on
\* the receiver itself is not on the clone.
allow(this, value) ==
    [this EXCEPT !.valids = @ \cup {value}, !.jsonOnValidate = FALSE]

\* any.strict(isStrict): a clone that converts nothing when isStrict.
strict(this, isStrict) == [this EXCEPT !.strict = isStrict]

\* array.items(type), array.sparse(enabled), array.unique()
items(this, type) == [this EXCEPT !.items = Append(@, type)]
sparse(this, enabled) == [this EXCEPT !.sparse = enabled]
unique(this) == [this EXCEPT !.unique = TRUE]

\* string.regex(re), number.min(limit), number.max(limit)
regex(this, re) == [this EXCEPT !.regex = re]
min(this, limit) == [this EXCEPT !.min = limit]
max(this, limit) == [this EXCEPT !.max = limit]

\* object.or(peers): at least one of the peers must be present.
or(this, names) == [this EXCEPT !.peers = Append(@, names)]

\* object.unknown(allow)
unknown(this, allowed) == [this EXCEPT !.allowUnknown = allowed]

\* alternatives.try(a, b): a clone that accepts what a or b accepts.
try(this, schemas) == [this EXCEPT !.tries = @ \o schemas]

\* any.concat(schema): a clone whose annotations and renames are followed by schema's.
concat(this, schema) ==
    [this |-> this,
     ret |-> [this EXCEPT !.meta = @ \o schema.meta,
                          !.renames = @ \o schema.renames]]

(***************************************************************************)
(* index.js: the helpers.                                                  *)
(***************************************************************************)
\* var slice = Array.prototype.slice.call: Function.prototype.call detached
\* from its receiver, so calling it throws a TypeError whatever it is given.
slice(arguments) == Throw("TypeError")

findMeta_first(schema, key) ==
    LET k == Or(key, Str("cql")).s
        all == Or(Get(describe(schema), "meta"), EmptyArray).a
        found == SelectSeq(all, LAMBDA m : HasKey(m, k))
    IN  IF Len(found) = 0 THEN Undefined ELSE found[1]

\* key defaults to 'cql'; the last annotation that has the key, or undefined.
findMeta(schema, key) ==
    LET k == Or(key, Str("cql")).s
        all == Or(Get(describe(schema), "meta"), EmptyArray).a
        found == SelectSeq(all, LAMBDA m : HasKey(m, k))
    IN  IF Len(found) = 0 THEN Undefined ELSE found[Len(found)]

findMetaValue(schema, key) ==
    LET m == Or(findMeta(schema, key), EmptyObject)
    IN  Get(m, key.s)

(***************************************************************************)
(* index.js: the extensions of joi's object schema.                        *)
(***************************************************************************)
lookupKeys(this, args) ==
    IF Len(args) = 0
    THEN [this |-> this, ret |-> Or(findMetaValue(this, Str("cqlLookupKeys")), EmptyArray)]
    ELSE LET names == IF IsArray(args[1]) THEN args[1] ELSE slice(args)
         IN  IF IsThrow(names)
             THEN [this |-> this, ret |-> names]
             ELSE meta(this, Obj("cqlLookupKeys" :> names))

partitionKey_normalized(this, args) ==
    IF Len(args) = 0
    THEN [this |-> this, ret |-> Or(findMetaValue(this, Str("cqlPartitionKey")), EmptyArray)]
    ELSE meta(this, Obj("cqlPartitionKey" :>
                            IF IsArray(args[1]) THEN args[1] ELSE Arr(<<args[1]>>)))

partitionKey_inPlace(this, args) ==
    IF Len(args) = 0
    THEN [this |-> this, ret |-> Or(findMetaValue(this, Str("cqlPartitionKey")), EmptyArray)]
    ELSE LET r == meta(this, Obj("cqlPartitionKey" :> args[1]))
         IN  [this |-> r.ret, ret |-> r.ret]

partitionKey_clustering(this, args) ==
    IF Len(args) = 0
    THEN [this |-> this, ret |-> Or(findMetaValue(this, Str("cqlPartitionKey")), EmptyArray)]
    ELSE meta(this, Obj("cqlPartitionKey" :> args[1] @@ "cqlClusteringKey" :> args[1]))

partitionKey(this, args) ==
    IF Len(args) = 0
    THEN [this |-> this, ret |-> Or(findMetaValue(this, Str("cqlPartitionKey")), EmptyArray)]
    ELSE meta(this, Obj("cqlPartitionKey" :> args[1]))

clusteringKey(this, args) ==
    IF Len(args) = 0
    THEN [this |-> this, ret |-> Or(findMetaValue(this, Str("cqlClusteringKey")), EmptyArray)]
    ELSE meta(this, Obj("cqlClusteringKey" :> args[1]))

\* aliases() keeping the first rename of an alias.
aliases_first(this, args) ==
    IF Truthy(Arg(args, 1))
    THEN rename(this, args)
    ELSE LET n == Len(this.renames)
             froms == {this.renames[i].from : i \in 1..n}
             first(f) == CHOOSE i \in 1..n :
                            /\ this.renames[i].from = f
                            /\ \A j \in 1..(i - 1) : this.renames[j].from # f
         IN  [this |-> this,
              ret |-> Obj([f \in froms |-> Str(this.renames[first(f)].to)])]

aliases(this, args) ==
    IF Truthy(Arg(args, 1))
    THEN rename(this, args)
    ELSE LET n == Len(this.renames)
             froms == {this.renames[i].from : i \in 1..n}
             last(f) == CHOOSE i \in 1..n :
                           /\ this.renames[i].from = f
                           /\ \A j \in (i + 1)..n : this.renames[j].from # f
         IN  [this |-> this,
              ret |-> Obj([f \in froms |-> Str(this.renames[last(f)].to)])]

\* proto.toCql on an object schema, joi.constructor.prototype.toCql on any other.
toCql(this) ==
    IF this.type = "object" /\ Truthy(this.children)
    THEN LET children == this.children.a
             n == Len(children)
             names == {Get(children[i], "key").s : i \in 1..n}
             last(k) == CHOOSE i \in 1..n :
                           /\ Get(children[i], "key").s = k
                           /\ \A j \in (i + 1)..n : Get(children[j], "key").s # k
         IN  [this |-> this,
              ret |-> Obj([k \in names |->
                              findMeta(Get(children[last(k)], "schema"), Undefined)])]
    ELSE [this |-> this, ret |-> findMeta(this, Undefined)]

(***************************************************************************)
(* index.js: the defaults.                                                 *)
(***************************************************************************)
\* new Date().toISOString(), for a clock that reads `ms` milliseconds (ms < 10).
toISOString(ms) == Str("1970-01-01T00:00:00.00" \o Digit(ms) \o "Z")

\* The uuid package: uuid.v1() and uuid.v4() with `r` the randomness drawn.
uuid_v1(r) == Str("0000000" \o Digit(r) \o "-0000-1000-8000-000000000000")
uuid_v4(r) == Str("0000000" \o Digit(r) \o "-0000-4000-8000-000000000000")
NilUuid == Str("00000000-0000-0000-0000-000000000000")

\* uuid[name](): only v1 and v4 are functions of the package.
uuid_call(name, r) ==
    IF name = Str("v1") THEN uuid_v1(r)
    ELSE IF name = Str("v4") THEN uuid_v4(r)
    ELSE Throw("TypeError")

defaults_date_fn_exact(when, context, config, now) ==
    LET operation == Get(Get(config, "context"), "operation")
    IN  IF IsThrow(operation) THEN operation
        ELSE IF when = operation THEN toISOString(now)
        ELSE Undefined

defaults_date_fn_documented(when, context, config, now) ==
    LET operation == Get(Get(config, "context"), "operation")
    IN  IF IsThrow(operation) THEN operation
        ELSE IF \/ (when = Str("create") /\ operation = Str("create"))
                \/ (when = Str("update") /\ operation \in {Str("create"), Str("update")})
        THEN toISOString(now)
        ELSE Undefined

\* The function defaults.date registers, `when` being the option it closes over.
defaults_date_fn(when, context, config, now) ==
    LET operation == Get(Get(config, "context"), "operation")
    IN  IF IsThrow(operation) THEN operation
        ELSE IF \/ when = operation
                \/ (when = Str("update") /\ operation \in {Str("create"), Str("update")})
        THEN toISOString(now)
        ELSE Undefined

\* The function defaults.uuid registers, `options` being what it closes over.
defaults_uuid_fn(options, context, config, random) ==
    LET operation == Get(Get(config, "context"), "operation")
    IN  IF IsThrow(operation) THEN operation
        ELSE IF operation = Str("create")
        THEN IF Get(options, "default") = Str("empty") THEN NilUuid
             ELSE uuid_call(Get(options, "default"), random)
        ELSE Undefined

defaults_date(validator, options) ==
    default(validator, [t |-> "function", fn |-> "date", when |-> Get(options, "default")]).ret

defaults_uuid(validator, options) ==
    default(validator, [t |-> "function", fn |-> "uuid", options |-> options]).ret

defaultify(type, validator, options) ==
    IF Truthy(OptionsDefault(options))
    THEN IF type = "date" THEN defaults_date(validator, options)
         ELSE defaults_uuid(validator, options)
    ELSE validator

defaultUuid_asGiven(options, version) ==
    IF Truthy(OptionsDefault(options)) THEN Get(options, "default") ELSE Undefined

defaultUuid(options, version) ==
    IF Truthy(OptionsDefault(options))
    THEN IF Get(options, "default") \in {Str(version), Str("empty")}
         THEN Get(options, "default")
         ELSE Str(version)
    ELSE Undefined

\* Calling a registered default: context is the parent object, config the
\* validation options, env what the clock and the random source give.
callDefault(fn, context, config, env) ==
    IF fn.fn = "date"
    THEN defaults_date_fn(fn.when, context, config, env.now)
    ELSE defaults_uuid_fn(fn.options, context, config, env.random)

(***************************************************************************)
(* The joi engine: validation.                                             *)
(***************************************************************************)
\* The strings the guid rule and the iso rule accept, among those of the model.
Guids == {NilUuid.s} \cup {uuid_v1(r).s : r \in 0..MaxRandom}
                      \cup {uuid_v4(r).s : r \in 0..MaxRandom}
IsoDates == {toISOString(n).s : n \in 0..MaxClock}

\* JSON.stringify, for the values of the model: strings hold nothing to
\* escape, numbers are single digits, and an object's fields are written in
\* some fixed order (the objects of the model hold at most one field).
RECURSIVE JSON_stringify_text(_)
JSON_stringify_text(v) ==
    LET RECURSIVE elements(_)
        elements(a) == IF Len(a) = 0 THEN ""
                    ELSE (IF a[1].t = "undefined" THEN "null" ELSE JSON_stringify_text(a[1]))
                         \o (IF Len(a) > 1 THEN "," ELSE "") \o elements(Tail(a))
        RECURSIVE fields(_)
        fields(S) == IF S = {} THEN ""
                     ELSE LET k == CHOOSE x \in S : TRUE
                          IN  "\"" \o k \o "\":" \o JSON_stringify_text(v.o[k])
                              \o (IF S = {k} THEN "" ELSE ",") \o fields(S \ {k})
    IN  CASE v.t = "string" -> "\"" \o v.s \o "\""
          [] v.t = "number" -> Digit(v.n)
          [] v.t = "boolean" -> IF v.b THEN "true" ELSE "false"
          [] v.t = "null" -> "null"
          [] v.t = "array" -> "[" \o elements(v.a) \o "]"
          [] v.t = "object" ->
                 "{" \o fields({k \in DOMAIN v.o : v.o[k].t # "undefined"}) \o "}"
          [] v.t = "date" -> "\"" \o v.iso \o "\""

\* JSON.stringify(undefined) is undefined, not a string.
JSON_stringify(v) == IF v.t = "undefined" THEN Undefined ELSE Str(JSON_stringify_text(v))

\* The JSON values of the model: the scalars, the arrays and objects of one
\* level over them, and the values of two levels that are serialized.
JsonScalars == {Str("x"), Str(""), Num(1), Num(0), Bool(TRUE), Bool(FALSE), Null}
JsonUniverse ==
    JsonScalars
        \cup {EmptyArray, EmptyObject}
        \cup {Arr(<<v>>) : v \in JsonScalars}
        \cup {Arr(<<v, w>>) : v \in {Str("x")}, w \in JsonScalars}
        \cup {Obj("a" :> v) : v \in JsonScalars}
        \cup {Arr(<<Obj("a" :> Str("x"))>>), Obj("a" :> Arr(<<Str("x")>>))}
        \cup {Obj(k :> Arr(<<Str("x")>>)) : k \in {"append", "add", "remove"}}
        \cup {Obj("append" :> Arr(<<Str("x")>>) @@ "remove" :> Arr(<<Str("")>>)),
              Obj("index" :> Obj("0" :> Str("x")))}

\* ToText(v), which JSON.parse applies to its argument first.
ToText(v) ==
    CASE v.t = "string" -> v.s
      [] v.t = "number" -> Digit(v.n)
      [] v.t = "boolean" -> IF v.b THEN "true" ELSE "false"
      [] v.t = "null" -> "null"
      [] v.t = "undefined" -> "undefined"
      [] v.t = "array" ->
             IF Len(v.a) = 1 /\ v.a[1].t \in {"string", "number", "boolean"}
             THEN (IF v.a[1].t = "string" THEN v.a[1].s
                   ELSE IF v.a[1].t = "number" THEN Digit(v.a[1].n)
                   ELSE IF v.a[1].b THEN "true" ELSE "false")
             ELSE IF Len(v.a) = 0 THEN ""
             ELSE ","
      [] OTHER -> "[object Object]"

\* JSON.parse returning its argument as it is.
JSON_parse_raw(v) == v

\* JSON.parse(v): the value whose JSON text ToText(v) is, among the values
\* of the model; a SyntaxError when it is the text of none.
JSON_parse(v) ==
    LET source == ToText(v)
        parsed == {x \in JsonUniverse : JSON_stringify_text(x) = source}
    IN  IF parsed = {} THEN Throw("SyntaxError") ELSE CHOOSE x \in parsed : TRUE

\* Calling a function an annotation carries, on one argument.
RECURSIVE call(_, _)

\* The function convertArray(handler) returns, without `|| []`.
convertArray_fn_unguarded(handler, data) ==
    IF ~Truthy(handler) THEN data
    ELSE IF ~IsArray(data) THEN Throw("TypeError")
    ELSE Arr([i \in 1..Len(data.a) |-> call(handler, data.a[i])])

\* The function convertMap(handler) returns: handler mapped over the values
\* of the object, the data itself, or an empty object, when there is no handler.
convertMap_fn(handler, data) ==
    IF ~Truthy(handler) THEN Or(data, EmptyObject)
    ELSE LET source == Or(data, EmptyObject)
             names == IF IsObject(source) THEN DOMAIN source.o ELSE {}
             memo == [k \in names |-> call(handler, source.o[k])]
         IN  IF \E k \in names : IsThrow(memo[k])
             THEN memo[CHOOSE k \in names : IsThrow(memo[k])]
             ELSE Obj(memo)

\* The function convertArray(handler) returns: (data || []).map(handler),
\* which only an array has; the data itself, or an empty array, when there is
\* no handler.
convertArray_fn(handler, data) ==
    IF ~Truthy(handler) THEN Or(data, EmptyArray)
    ELSE LET source == Or(data, EmptyArray)
             mapped == [i \in 1..Len(source.a) |-> call(handler, source.a[i])]
         IN  IF ~IsArray(source) THEN Throw("TypeError")
             ELSE IF \E i \in 1..Len(source.a) : IsThrow(mapped[i])
             THEN mapped[CHOOSE i \in 1..Len(source.a) : IsThrow(mapped[i])]
             ELSE Arr(mapped)

\* What is no function cannot be called.
call(fn, data) ==
    IF fn.t # "function" THEN Throw("TypeError")
    ELSE CASE fn.fn = "JSON.stringify" -> JSON_stringify(data)
           [] fn.fn = "JSON.parse" -> JSON_parse(data)
           [] fn.fn = "convertMap" -> convertMap_fn(fn.handler, data)
           [] fn.fn = "convertArray" -> convertArray_fn(fn.handler, data)

\* The strings joi.boolean() converts.
TrueStrings == {"true", "yes", "on"}
FalseStrings == {"false", "no", "off"}

\* What a schema's own type and rules make of a value that is present, and the
\* validation of a value that may be absent: each a result [error, value], the
\* value converted where the type converts, or the exception that escaped.
RECURSIVE base(_, _, _, _), _validate(_, _, _, _, _)
base(schema, value, options, env) ==
    CASE schema.type = "string" ->
             [t |-> "result",
              error |-> ~(/\ IsString(value)
                          /\ value.s # ""
                          /\ ("guid" \in schema.rules => value.s \in Guids)
                          /\ (schema.regex # "" => RegexTest(schema.regex, value.s))),
              value |-> value]
      [] schema.type = "number" ->
             \* a string is converted first; then the rules
             NumberResult(schema, toNumber(value))
      [] schema.type = "date" ->
             IF IsString(value) /\ value.s \in IsoDates
             THEN [t |-> "result", error |-> FALSE, value |-> [t |-> "date", iso |-> value.s]]
             ELSE [t |-> "result", error |-> TRUE, value |-> value]
      [] schema.type = "boolean" ->
             IF value.t = "boolean"
             THEN [t |-> "result", error |-> FALSE, value |-> value]
             ELSE IF IsString(value) /\ ~schema.strict /\ value.s \in TrueStrings
             THEN [t |-> "result", error |-> FALSE, value |-> Bool(TRUE)]
             ELSE IF IsString(value) /\ ~schema.strict /\ value.s \in FalseStrings
             THEN [t |-> "result", error |-> FALSE, value |-> Bool(FALSE)]
             ELSE [t |-> "result", error |-> TRUE, value |-> value]
      [] schema.type = "alternatives" ->
             LET try_(i) == _validate(schema.tries[i], value, value, options, env)
                 ok == {i \in 1..Len(schema.tries) : ~try_(i).error}
             IN  IF ok = {} THEN [t |-> "result", error |-> TRUE, value |-> value]
                 ELSE try_(CHOOSE i \in ok : \A j \in ok : i <= j)
      [] schema.type = "array" ->
             IF ~IsArray(value) THEN [t |-> "result", error |-> TRUE, value |-> value]
             ELSE LET n == Len(value.a)
                      \* an element must match one of the items when there are some
                      item(i) ==
                          LET el == value.a[i]
                              fits == {j \in 1..Len(schema.items) :
                                          ~_validate(schema.items[j], el, value, options, env).error}
                          IN  IF el = Undefined
                              THEN [t |-> "result", error |-> ~schema.sparse, value |-> el]
                              ELSE IF Len(schema.items) = 0
                              THEN [t |-> "result", error |-> FALSE, value |-> el]
                              ELSE IF fits = {}
                              THEN [t |-> "result", error |-> TRUE, value |-> el]
                              ELSE _validate(schema.items[CHOOSE j \in fits :
                                                              \A h \in fits : j <= h],
                                             el, value, options, env)
                      repeated == \E i, j \in 1..n :
                                      /\ i < j
                                      /\ item(i).value # Undefined
                                      /\ item(i).value = item(j).value
                  IN  [t |-> "result",
                       error |-> \/ \E i \in 1..n : item(i).error
                                 \/ schema.unique /\ repeated,
                       value |-> Arr([i \in 1..n |-> item(i).value])]
      [] schema.type = "object" ->
             IF ~IsObject(value) THEN [t |-> "result", error |-> TRUE, value |-> value]
             ELSE LET children == IF schema.children = Null THEN <<>> ELSE schema.children.a
                      child(k) == {i \in 1..Len(children) : Get(children[i], "key").s = k}
                      declared == {Get(children[i], "key").s : i \in 1..Len(children)}
                      closed == schema.children # Null \/ Len(schema.patterns) > 0
                      field(k) ==
                          IF k \in declared
                          THEN _validate(Get(children[CHOOSE i \in child(k) : TRUE], "schema"),
                                         Get(value, k), value, options, env)
                          ELSE IF \E p \in 1..Len(schema.patterns) :
                                      PatternTest(schema.patterns[p].regex, k)
                          THEN _validate(schema.patterns[
                                             CHOOSE p \in 1..Len(schema.patterns) :
                                                 PatternTest(schema.patterns[p].regex, k)].rule,
                                         Get(value, k), value, options, env)
                          ELSE [t |-> "result",
                                error |-> closed /\ ~schema.allowUnknown,
                                value |-> Get(value, k)]
                      all == DOMAIN value.o \cup declared
                      \* or(peers): one of the peers at least is not undefined
                      missing == \E p \in 1..Len(schema.peers) :
                                     \A k \in schema.peers[p] : Get(value, k) = Undefined
                  IN  IF \E k \in all : IsThrow(field(k))
                      THEN field(CHOOSE k \in all : IsThrow(field(k)))
                      ELSE [t |-> "result",
                            error |-> (\E k \in all : field(k).error) \/ missing,
                            value |-> Obj([k \in {x \in all : field(x).value # Undefined}
                                              |-> field(k).value])]
      [] OTHER -> [t |-> "result", error |-> FALSE, value |-> value]

\* any._validate taking the default whenever one is registered and gives a
\* value, the value being absent or not.
_validate_defaulting(schema, value, parent, options, env) ==
    LET d == IF schema.default = Undefined THEN Undefined
             ELSE callDefault(schema.default, parent, options, env)
    IN  IF IsThrow(d) THEN d
        ELSE IF d # Undefined THEN [t |-> "result", error |-> FALSE, value |-> d]
        ELSE IF value = Undefined THEN [t |-> "result", error |-> FALSE, value |-> Undefined]
        ELSE base(schema, value, options, env)

\* any._validate: an absent value takes the default, which is called when it
\* is a function; a present value passes when it was allowed by name, and
\* goes through the type and its rules otherwise.
\* A default that throws is not caught.  On a schema that went through
\* convertToJsonOnValidate this is the wrapper installed there.
_validate(schema, value, parent, options, env) ==
    LET result ==
            IF value = Undefined
            THEN IF schema.default = Undefined
                 THEN [t |-> "result", error |-> FALSE, value |-> Undefined]
                 ELSE LET d == callDefault(schema.default, parent, options, env)
                      IN  IF IsThrow(d) THEN d
                          ELSE [t |-> "result", error |-> FALSE, value |-> d]
            ELSE IF value \in schema.valids
            THEN [t |-> "result", error |-> FALSE, value |-> value]
            ELSE IF schema.allowOnly
            THEN [t |-> "result", error |-> TRUE, value |-> value]
            ELSE base(schema, value, options, env)
    IN  IF schema.jsonOnValidate /\ ~IsThrow(result)
        THEN IF ~result.error /\ Truthy(result.value)
             THEN [result EXCEPT !.value = JSON_stringify(@)]
             ELSE result
        ELSE result

\* joi.validate(target, { property: schema }, options): the validation options
\* are joi's defaults, which hold no context, overlaid with the caller's.
validate(target, schema, options, env) ==
    LET settings == IF IsObject(options) THEN options ELSE EmptyObject
        r == _validate(schema, Get(target, "property"), target, settings, env)
    IN  IF IsThrow(r) THEN r
        ELSE Obj("error" :> (IF r.error THEN Str("ValidationError") ELSE Null)
                 @@ "value" :> (IF r.value = Undefined THEN EmptyObject
                                ELSE Obj("property" :> r.value)))

(***************************************************************************)
(* index.js: types.cql, the builders.                                      *)
(***************************************************************************)
\* convertToJsonOnValidate(any): the schema itself, its _validate wrapped.
convertToJsonOnValidate(schema) == [schema EXCEPT !.jsonOnValidate = TRUE]

\* JSON.stringify and JSON.parse as the values an annotation carries.
JsonAnnotation ==
    Obj("cql" :> Bool(TRUE) @@ "type" :> Str("text")
        @@ "serialize" :> [t |-> "function", fn |-> "JSON.stringify"]
        @@ "deserialize" :> [t |-> "function", fn |-> "JSON.parse"])

json(shape) ==
    IF Truthy(shape)
    THEN convertToJsonOnValidate(meta(keys(object, shape), JsonAnnotation).ret)
    ELSE convertToJsonOnValidate(meta(any("any"), JsonAnnotation).ret)

\* convertMap(handler), as the value an annotation carries.
convertMap(handler) == [t |-> "function", fn |-> "convertMap", handler |-> handler]

\* map(keyType, valueType) recording the canonical type of keyType.
map_keyed(keyType, valueType) ==
    LET m == findMeta(valueType, Undefined)
    IN  pattern(meta(object,
                     Obj("cql" :> Bool(TRUE) @@ "type" :> Str("map")
                         @@ "mapType" :> Arr(<<Get(findMeta(keyType, Undefined), "type"),
                                               Get(m, "type")>>))).ret,
                "[\\-\\w]+", valueType)

\* map(keyType, valueType): reading meta.type throws when valueType has no
\* `cql` annotation.
map(keyType, valueType) ==
    LET m == findMeta(valueType, Undefined)
    IN  IF IsThrow(Get(m, "type")) THEN Get(m, "type")
        ELSE pattern(meta(object,
                          Obj("cql" :> Bool(TRUE) @@ "type" :> Str("map")
                              @@ "mapType" :> Arr(<<Str("text"), Get(m, "type")>>)
                              @@ "serialize" :> convertMap(Get(m, "serialize"))
                              @@ "deserialize" :> convertMap(Get(m, "deserialize")))).ret,
                     "[\\-\\w]+", valueType)

\* convertArray(handler), as the value an annotation carries.
convertArray(handler) == [t |-> "function", fn |-> "convertArray", handler |-> handler]

text == meta(strict(allow(string, Str("")), TRUE),
             Obj("cql" :> Bool(TRUE) @@ "type" :> Str("text"))).ret

boolean == meta(any("boolean"), Obj("cql" :> Bool(TRUE) @@ "type" :> Str("boolean"))).ret

\* set(type) without unique().
set_repeating(type) ==
    LET m == findMeta(type, Undefined)
        set_ == items(sparse(any("array"), FALSE), type)
    IN  try(meta(any("alternatives"),
                 Obj("cql" :> Bool(TRUE) @@ "type" :> Str("set")
                     @@ "setType" :> Get(m, "type"))).ret,
            <<set_,
              unknown(or(keys(object, Obj("add" :> set_ @@ "remove" :> set_)),
                         {"add", "remove"}),
                      FALSE)>>)

\* list(type) without or('prepend', 'append', 'remove', 'index').
list_noPeers(type) ==
    LET m == findMeta(type, Undefined)
        list_ == items(sparse(any("array"), FALSE), type)
    IN  try(meta(any("alternatives"),
                 Obj("cql" :> Bool(TRUE) @@ "type" :> Str("list")
                     @@ "listType" :> Get(m, "type"))).ret,
            <<list_,
              unknown(keys(object,
                           Obj("prepend" :> list_ @@ "append" :> list_
                               @@ "remove" :> list_
                               @@ "index" :> pattern(object, "^\\d+$", type))),
                      FALSE)>>)

\* set(type): reading meta.type throws when type has no `cql` annotation.
set(type) ==
    LET m == findMeta(type, Undefined)
        set_ == items(unique(sparse(any("array"), FALSE)), type)
    IN  IF IsThrow(Get(m, "type")) THEN Get(m, "type")
        ELSE try(meta(any("alternatives"),
                      Obj("cql" :> Bool(TRUE) @@ "type" :> Str("set")
                          @@ "setType" :> Get(m, "type")
                          @@ "serialize" :> convertArray(Get(m, "serialize"))
                          @@ "deserialize" :> convertArray(Get(m, "deserialize")))).ret,
                 <<set_,
                   unknown(or(keys(object, Obj("add" :> set_ @@ "remove" :> set_)),
                              {"add", "remove"}),
                           FALSE)>>)

\* list(type): reading meta.type throws when type has no `cql` annotation.
list(type) ==
    LET m == findMeta(type, Undefined)
        list_ == items(sparse(any("array"), FALSE), type)
    IN  IF IsThrow(Get(m, "type")) THEN Get(m, "type")
        ELSE try(meta(any("alternatives"),
                      Obj("cql" :> Bool(TRUE) @@ "type" :> Str("list")
                          @@ "listType" :> Get(m, "type")
                          @@ "serialize" :> convertArray(Get(m, "serialize"))
                          @@ "deserialize" :> convertArray(Get(m, "deserialize")))).ret,
                 <<list_,
                   unknown(or(keys(object,
                                   Obj("prepend" :> list_ @@ "append" :> list_
                                       @@ "remove" :> list_
                                       @@ "index" :> pattern(object, "^\\d+$", type))),
                              {"prepend", "append", "remove", "index"}),
                           FALSE)>>)

timestamp(options) ==
    LET validator ==
            try(meta(any("alternatives"),
                     Obj("cql" :> Bool(TRUE) @@ "type" :> Str("timestamp")
                         @@ "default" :> OptionsDefault(options))).ret,
                <<rule(number, "integer"), rule(any("date"), "iso")>>)
    IN  defaultify("date", validator, options)

timeuuid(options) ==
    LET validator ==
            rule(meta(string,
                      Obj("cql" :> Bool(TRUE) @@ "type" :> Str("timeuuid")
                          @@ "default" :> OptionsDefault(options))).ret,
                 "guid")
    IN  defaultify("uuid", validator, Obj("default" :> defaultUuid(options, "v1")))

uuid_normalized(options) ==
    LET validator ==
            rule(meta(string,
                      Obj("cql" :> Bool(TRUE) @@ "type" :> Str("uuid")
                          @@ "default" :> defaultUuid(options, "v4"))).ret,
                 "guid")
    IN  defaultify("uuid", validator, Obj("default" :> defaultUuid(options, "v4")))

uuid(options) ==
    LET validator ==
            rule(meta(string,
                      Obj("cql" :> Bool(TRUE) @@ "type" :> Str("uuid")
                          @@ "default" :> OptionsDefault(options))).ret,
                 "guid")
    IN  defaultify("uuid", validator, Obj("default" :> defaultUuid(options, "v4")))

\* int without its upper limit.
int_noMax ==
    min(meta(rule(number, "integer"),
             Obj("cql" :> Bool(TRUE) @@ "type" :> Str("int"))).ret,
        Int32Min)

\* joi.number().integer().meta({cql: true, type: 'int'}).min(..).max(..)
int ==
    max(min(meta(rule(number, "integer"),
                 Obj("cql" :> Bool(TRUE) @@ "type" :> Str("int"))).ret,
            Int32Min),
        Int32Max)

\* int64(name): a string of one to nineteen digits after an optional dash,
\* or an integer number.
int64(name) ==
    try(meta(any("alternatives"), Obj("cql" :> Bool(TRUE) @@ "type" :> Str(name))).ret,
        <<regex(string, "^\\-?\\d{1,19}$"), rule(number, "integer")>>)

\* decimal(name): a string of digits with an optional fraction, or a number.
decimal(name) ==
    try(meta(any("alternatives"), Obj("cql" :> Bool(TRUE) @@ "type" :> Str(name))).ret,
        <<regex(string, "^\\-?\\d+(\\.\\d+)?$"), number>>)

ascii == meta(strict(allow(string, Str("")), TRUE),
              Obj("cql" :> Bool(TRUE) @@ "type" :> Str("ascii"))).ret
bigint == int64("bigint")
blob ==
    try(meta(any("alternatives"), Obj("cql" :> Bool(TRUE) @@ "type" :> Str("blob"))).ret,
        <<any("binary"), rule(string, "hex")>>)
counter == int64("counter")
double == decimal("double")
float == decimal("float")
inet == rule(meta(string, Obj("cql" :> Bool(TRUE) @@ "type" :> Str("inet"))).ret, "ip")
varchar == meta(allow(string, Str("")), Obj("cql" :> Bool(TRUE) @@ "type" :> Str("varchar"))).ret
varint ==
    try(meta(any("alternatives"), Obj("cql" :> Bool(TRUE) @@ "type" :> Str("varint"))).ret,
        <<regex(string, "^\\-?\\d+$"), rule(number, "integer")>>)

\* The scalar builders of types.cql.
ScalarNames ==
    {"ascii", "bigint", "blob", "boolean", "counter", "decimal", "double", "float",
     "inet", "int", "json", "text", "timestamp", "timeuuid", "uuid", "varchar", "varint"}

\* types.cql[name](...args).  A name that is no property of types.cql gives
\* undefined, and calling it throws; so does a collection builder that reads
\* the annotation of a missing element type.
cql(name, args) ==
    CASE name = Str("ascii") -> ascii
      [] name = Str("bigint") -> bigint
      [] name = Str("blob") -> blob
      [] name = Str("boolean") -> boolean
      [] name = Str("counter") -> counter
      [] name = Str("decimal") -> decimal("decimal")
      [] name = Str("double") -> double
      [] name = Str("float") -> float
      [] name = Str("inet") -> inet
      [] name = Str("int") -> int
      [] name = Str("json") -> json(Arg(args, 1))
      [] name = Str("text") -> text
      [] name = Str("timestamp") -> timestamp(Arg(args, 1))
      [] name = Str("timeuuid") -> timeuuid(Arg(args, 1))
      [] name = Str("uuid") -> uuid(Arg(args, 1))
      [] name = Str("varchar") -> varchar
      [] name = Str("varint") -> varint
      [] name = Str("map") ->
             IF IsJoi(Arg(args, 2)) THEN map(Arg(args, 1), Arg(args, 2))
             ELSE Throw("TypeError")
      [] name = Str("list") ->
             IF IsJoi(Arg(args, 1)) THEN list(Arg(args, 1)) ELSE Throw("TypeError")
      [] name = Str("set") ->
             IF IsJoi(Arg(args, 1)) THEN set(Arg(args, 1)) ELSE Throw("TypeError")
      \* names types.cql inherits from Object.prototype
      [] name = Str("toString") -> Str("[object Object]")
      [] name = Str("constructor") ->
             IF Arg(args, 1) \in {Undefined, Null} THEN EmptyObject ELSE Arg(args, 1)
      [] OTHER -> Throw("TypeError")

\* a[i] of an array, counted from 0 as the code counts.
Index(a, i) ==
    IF a.t \in {"undefined", "null"} THEN Throw("TypeError")
    ELSE IF IsArray(a) /\ i < Len(a.a) THEN a.a[i + 1]
    ELSE Undefined

\* types.cql.create(type, obj)
create(type, obj) ==
    LET cqlType ==
            IF type = Str("map")
            THEN LET mapType == Get(obj, "mapType")
                     keyType == IF IsThrow(mapType) THEN mapType
                                ELSE IF IsThrow(Index(mapType, 0)) THEN Index(mapType, 0)
                                ELSE cql(Index(mapType, 0), <<>>)
                     valueType == IF IsThrow(keyType) THEN keyType
                                  ELSE cql(Index(mapType, 1), <<>>)
                 IN  IF IsThrow(valueType) THEN valueType
                     ELSE cql(type, <<keyType, valueType>>)
            ELSE IF type \in {Str("set"), Str("list")}
            THEN LET subType == Get(obj, type.s \o "Type")
                     element == IF IsThrow(subType) THEN subType ELSE cql(subType, <<>>)
                 IN  IF IsThrow(element) THEN element ELSE cql(type, <<element>>)
            ELSE cql(type, <<obj>>)
    IN  IF IsThrow(cqlType) THEN cqlType
        ELSE IF Truthy(obj) /\ Truthy(Get(obj, "nullable"))
        THEN IF IsJoi(cqlType) THEN allow(cqlType, Null) ELSE Throw("TypeError")
        ELSE cqlType

(***************************************************************************)
(* The calls a client makes.  A call that returns a schema allocates it on *)
(* the heap; a call that throws allocates nothing.  Either way the call is *)
(* logged with its receiver (0 when it has none), its arguments and what   *)
(* came back.                                                              *)
(***************************************************************************)
Record(op, i, args, r) ==
    LET h == IF i = 0 THEN heap ELSE [heap EXCEPT ![i] = r.this]
    IN  IF IsJoi(r.ret)
        THEN /\ heap' = Append(h, r.ret)
             /\ calls' = Append(calls, [op |-> op, this |-> i, args |-> args,
                                        ret |-> Ref(Len(heap) + 1)])
        ELSE /\ heap' = h
             /\ calls' = Append(calls, [op |-> op, this |-> i, args |-> args,
                                        ret |-> r.ret])

\* The arguments the setters are called with.
KeyValues == {Str("a"), Arr(<<Str("a"), Str("b")>>), Null, Str("")}
KeyArgs == {<<v>> : v \in KeyValues}
LookupArgs == {<<Arr(<<Str("a"), Str("b")>>)>>, <<Str("a"), Str("b")>>}
AliasArgs == {<<Str("id"), Str("album_id")>>, <<Str("id")>>}

CallPartitionKey ==
    /\ Len(calls) < MaxCalls
    /\ \E i \in 1..Len(heap), args \in KeyArgs :
           Record("partitionKey", i, args, partitionKey(heap[i], args))

CallClusteringKey ==
    /\ Len(calls) < MaxCalls
    /\ \E i \in 1..Len(heap), args \in KeyArgs :
           Record("clusteringKey", i, args, clusteringKey(heap[i], args))

CallLookupKeys ==
    /\ Len(calls) < MaxCalls
    /\ \E i \in 1..Len(heap), args \in LookupArgs :
           Record("lookupKeys", i, args, lookupKeys(heap[i], args))

CallAliases ==
    /\ Len(calls) < MaxCalls
    /\ \E i \in 1..Len(heap), args \in AliasArgs :
           Record("aliases", i, args, aliases(heap[i], args))

CallConcat ==
    /\ Len(calls) < MaxCalls
    /\ \E i \in 1..Len(heap), j \in 1..Len(heap) :
           Record("concat", i, <<Ref(j)>>, concat(heap[i], heap[j]))

Init ==
    /\ heap = <<object>>
    /\ calls = <<>>

Next ==
    \/ CallPartitionKey
    \/ CallClusteringKey
    \/ CallLookupKeys
    \/ CallAliases
    \/ CallConcat

Spec == Init /\ [][Next]_vars

(***************************************************************************)
(* Reading the log: how a schema on the heap was derived.                  *)
(***************************************************************************)
HasOrigin(n) == \E k \in 1..Len(calls) : calls[k].ret = Ref(n)
OriginIndex(n) == CHOOSE k \in 1..Len(calls) : calls[k].ret = Ref(n)
Origin(n) == calls[OriginIndex(n)]

\* No composition anywhere in the derivation of schema n.
RECURSIVE ConcatFree(_)
ConcatFree(n) ==
    IF ~HasOrigin(n) THEN TRUE
    ELSE Origin(n).op # "concat" /\ ConcatFree(Origin(n).this)

\* The arguments assigned through setter `op` in the derivation of schema n, in
\* the order the derivation applies them: a composition applies the receiver's
\* assignments, then the argument's.
RECURSIVE Assigned(_, _)
Assigned(n, op) ==
    IF ~HasOrigin(n) THEN <<>>
    ELSE LET c == Origin(n)
         IN  IF c.op = "concat"
             THEN Assigned(c.this, op) \o Assigned(c.args[1].ref, op)
             ELSE IF c.op = op
             THEN Append(Assigned(c.this, op), c.args[1])
             ELSE Assigned(c.this, op)

\* The positions in the log of the assignments through `op` that schema n derives from.
RECURSIVE AssignedAt(_, _)
AssignedAt(n, op) ==
    IF ~HasOrigin(n) THEN {}
    ELSE LET c == Origin(n)
         IN  IF c.op = "concat"
             THEN AssignedAt(c.this, op) \cup AssignedAt(c.args[1].ref, op)
             ELSE IF c.op = op
             THEN AssignedAt(c.this, op) \cup {OriginIndex(n)}
             ELSE AssignedAt(c.this, op)

Max(S) == CHOOSE x \in S : \A y \in S : y <= x
Last(s) == s[Len(s)]

KeySetters == {"partitionKey", "clusteringKey"}

\* The no-argument getter for setter `op`.
KeyGetter(op, s) ==
    IF op = "partitionKey" THEN partitionKey(s, <<>>).ret ELSE clusteringKey(s, <<>>).ret

\* The four getters of a schema.
Getters(s) ==
    <<partitionKey(s, <<>>).ret, clusteringKey(s, <<>>).ret,
      lookupKeys(s, <<>>).ret, aliases(s, <<>>).ret>>

(***************************************************************************)
(* Claims about the schema-level key metadata.                             *)
(***************************************************************************)

\* C2, as amended: on a schema derived without composition, the getter of
\* partitionKey (clusteringKey) returns the last assigned argument itself when
\* that argument is truthy, and the empty sequence when nothing was assigned or
\* the last assigned argument is null or another falsy value such as ''; it
\* never falls back to an earlier assignment.
C2_GetterReturnsLastTruthyOrEmpty ==
    \A n \in 1..Len(heap) : \A op \in KeySetters :
        ConcatFree(n) =>
            LET as == Assigned(n, op)
            IN  KeyGetter(op, heap[n]) =
                    IF as = <<>> THEN EmptyArray
                    ELSE IF Truthy(Last(as)) THEN Last(as)
                    ELSE EmptyArray

\* C2 witness: a value was assigned, then null: the getter of the result is
\* empty while the getter of the schema before the null still returns the value.
C2_Witness ==
    \E n \in 1..Len(heap) :
        /\ HasOrigin(n) /\ ConcatFree(n)
        /\ Origin(n).op = "partitionKey"
        /\ Origin(n).args = <<Null>>
        /\ partitionKey(heap[Origin(n).this], <<>>).ret = Arr(<<Str("a"), Str("b")>>)
        /\ partitionKey(heap[n], <<>>).ret = EmptyArray

\* C2 as stated: the getter returns the last assigned argument verbatim,
\* and the empty sequence only when nothing was assigned or null was.
C2_GetterReturnsLastVerbatim ==
    \A n \in 1..Len(heap) : \A op \in KeySetters :
        ConcatFree(n) =>
            LET as == Assigned(n, op)
            IN  KeyGetter(op, heap[n]) =
                    IF as = <<>> \/ Last(as) = Null THEN EmptyArray ELSE Last(as)

\* C3: no setter call changes what the four getters return on any schema that
\* existed before the call; only the returned schema carries the update.
C3_SettersDoNotMutate ==
    [][\A i \in 1..Len(heap) : Getters(heap'[i]) = Getters(heap[i])]_vars

\* C3 witness: two setters were called on the same schema, each returned a
\* schema with changed getters, and the receiver still reads as a fresh object.
C3_Witness ==
    \E k \in 1..Len(calls), l \in 1..Len(calls) :
        /\ calls[k].op = "partitionKey" /\ calls[l].op = "aliases"
        /\ calls[k].this = calls[l].this
        /\ IsRef(calls[k].ret) /\ IsRef(calls[l].ret)
        /\ Getters(heap[calls[k].ret.ref]) # Getters(heap[calls[k].this])
        /\ Getters(heap[calls[l].ret.ref]) # Getters(heap[calls[l].this])
        /\ Getters(heap[calls[k].this]) = Getters(object)

\* What the getter reports for an assigned argument x: x || [].
Reported(x) == Or(x, EmptyArray)

\* C4, as amended: the composed schema A.concat(B) reports the value last
\* assigned on B when any assignment was made on B, and otherwise the value
\* last assigned on A, whichever of the two was assigned more recently; an
\* assignment made afterwards on the composed schema overrides it.
C4_ConcatArgumentWins ==
    \A k \in 1..Len(calls) : \A op \in KeySetters :
        LET c == calls[k]
        IN  /\ c.op = "concat" =>
                   LET a == Assigned(c.this, op)
                       b == Assigned(c.args[1].ref, op)
                   IN  KeyGetter(op, heap[c.ret.ref]) =
                           IF b # <<>> THEN Reported(Last(b))
                           ELSE IF a # <<>> THEN Reported(Last(a))
                           ELSE EmptyArray
            /\ (c.op = op /\ HasOrigin(c.this) /\ Origin(c.this).op = "concat") =>
                   KeyGetter(op, heap[c.ret.ref]) = Reported(c.args[1])

\* C4 witness: B was assigned before A, both to truthy values that differ, and
\* A.concat(B) reports B's.
C4_Witness ==
    \E k \in 1..Len(calls) :
        /\ calls[k].op = "concat"
        /\ LET a == AssignedAt(calls[k].this, "partitionKey")
               b == AssignedAt(calls[k].args[1].ref, "partitionKey")
           IN  /\ a # {} /\ b # {}
               /\ Max(b) < Max(a)
               /\ Truthy(calls[Max(a)].args[1]) /\ Truthy(calls[Max(b)].args[1])
               /\ calls[Max(a)].args[1] # calls[Max(b)].args[1]
               /\ partitionKey(heap[calls[k].ret.ref], <<>>).ret = calls[Max(b)].args[1]

\* C4 as stated: the composed schema reports the value assigned most recently
\* among the assignments made on either operand, and an assignment made
\* afterwards on the composed schema overrides it.
C4_ConcatMostRecentWins ==
    \A k \in 1..Len(calls) : \A op \in KeySetters :
        LET c == calls[k]
        IN  /\ c.op = "concat" =>
                   LET at == AssignedAt(c.this, op) \cup AssignedAt(c.args[1].ref, op)
                   IN  KeyGetter(op, heap[c.ret.ref]) =
                           IF at = {} THEN EmptyArray
                           ELSE Reported(calls[Max(at)].args[1])
            /\ (c.op = op /\ HasOrigin(c.this) /\ Origin(c.this).op = "concat") =>
                   KeyGetter(op, heap[c.ret.ref]) = Reported(c.args[1])

\* C5: lookupKeys(['a','b']) and lookupKeys('a','b') both return a derived
\* schema whose getter returns ['a','b'], and the getter returns [] on a schema
\* on which no lookup keys were set.
C5_LookupKeysBothForms ==
    /\ \A k \in 1..Len(calls) :
           calls[k].op = "lookupKeys" =>
               /\ IsRef(calls[k].ret)
               /\ lookupKeys(heap[calls[k].ret.ref], <<>>).ret = Arr(<<Str("a"), Str("b")>>)
    /\ \A n \in 1..Len(heap) :
           Assigned(n, "lookupKeys") = <<>> => lookupKeys(heap[n], <<>>).ret = EmptyArray

(***************************************************************************)
(* Annotating validators: builders, chained meta() calls, toCql().         *)
(***************************************************************************)
\* The annotations of the repository's own test of chained metadata.
Annotations ==
    {Obj("some" :> Str("metadata")), Obj("more" :> Str("metadata")),
     Obj("some" :> Str("overwritten"))}

CallInt ==
    /\ Len(calls) < MaxMetaCalls
    /\ Record("int", 0, <<>>, [this |-> Undefined, ret |-> int])

CallString ==
    /\ Len(calls) < MaxMetaCalls
    /\ Record("string", 0, <<>>, [this |-> Undefined, ret |-> string])

CallMeta ==
    /\ Len(calls) < MaxMetaCalls
    /\ \E i \in 1..Len(heap), m \in Annotations :
           Record("meta", i, <<m>>, meta(heap[i], m))

InitMeta ==
    /\ heap = <<>>
    /\ calls = <<>>

NextMeta ==
    \/ CallInt
    \/ CallString
    \/ CallMeta

SpecMeta == InitMeta /\ [][NextMeta]_vars

\* Every annotation of the chain folded into one record, a later annotation's
\* value replacing an earlier one's under the same key.
MergedAnnotations(chain) ==
    LET n == Len(chain)
        names == UNION {DOMAIN chain[i].o : i \in 1..n}
        last(k) == CHOOSE i \in 1..n :
                      /\ k \in DOMAIN chain[i].o
                      /\ \A j \in (i + 1)..n : k \notin DOMAIN chain[j].o
    IN  Obj([k \in names |-> chain[last(k)].o[k]])

\* C1: toCql() of a validator returns the annotations of its chain merged
\* into one record, the most recently attached value winning on a collision
\* and every other key retained, when some annotation carries `cql`.
C1_ToCqlMergesTheChain ==
    \A n \in 1..Len(heap) :
        (\E i \in 1..Len(heap[n].meta) : HasKey(heap[n].meta[i], "cql")) =>
            toCql(heap[n]).ret = MergedAnnotations(heap[n].meta)

(***************************************************************************)
(* Defaults: building timestamp/uuid/timeuuid validators and validating an *)
(* object whose `property` is absent or supplied.                          *)
(***************************************************************************)
Triggers == {"create", "update", "delete", "empty", "v1", "v4"}
BuilderOptions == {Undefined, EmptyObject} \cup {Obj("default" :> Str(t)) : t \in Triggers}

Operations == {"create", "update", "delete"}
Context(op) == Obj("context" :> Obj("operation" :> Str(op)))
ValidateOptions ==
    {Undefined, EmptyObject, Obj("context" :> EmptyObject)}
        \cup {Context(op) : op \in Operations}

Targets ==
    {EmptyObject, Obj("property" :> NilUuid), Obj("property" :> Num(1)),
     Obj("property" :> toISOString(0))}

CallTimestamp ==
    /\ Len(calls) < MaxDefaultCalls
    /\ \E options \in BuilderOptions :
           Record("timestamp", 0, <<options>>, [this |-> Undefined, ret |-> timestamp(options)])

CallTimeuuid ==
    /\ Len(calls) < MaxDefaultCalls
    /\ \E options \in BuilderOptions :
           Record("timeuuid", 0, <<options>>, [this |-> Undefined, ret |-> timeuuid(options)])

CallUuid ==
    /\ Len(calls) < MaxDefaultCalls
    /\ \E options \in BuilderOptions :
           Record("uuid", 0, <<options>>, [this |-> Undefined, ret |-> uuid(options)])

CallValidate ==
    /\ Len(calls) < MaxDefaultCalls
    /\ \E i \in 1..Len(heap), target \in Targets, options \in ValidateOptions,
          now \in 0..MaxClock, random \in 0..MaxRandom :
           Record("validate", i, <<target, options>>,
                  [this |-> heap[i],
                   ret |-> validate(target, heap[i], options,
                                    [now |-> now, random |-> random])])

InitDefaults ==
    /\ heap = <<>>
    /\ calls = <<>>

NextDefaults ==
    \/ CallTimestamp
    \/ CallTimeuuid
    \/ CallUuid
    \/ CallValidate

SpecDefaults == InitDefaults /\ [][NextDefaults]_vars

\* The validate calls of the log, and how the validator of each was built.
Validations == {k \in 1..Len(calls) : calls[k].op = "validate"}
Builder(k) == Origin(calls[k].this)
BuiltWith(k) == Builder(k).args[1]
AbsentIn(k) == calls[k].args[1] = EmptyObject
Returned(k) == calls[k].ret
\* The property of the validated value, undefined when it stays absent.
Property(k) == Get(Get(Returned(k), "value"), "property")

V1s == {uuid_v1(r) : r \in 0..MaxRandom}
V4s == {uuid_v4(r) : r \in 0..MaxRandom}
Timestamps == {toISOString(n) : n \in 0..MaxClock}

\* C6: uuid() and timeuuid() built with no default option still default an
\* absent field under operation 'create' (v4 for uuid, v1 for timeuuid) and
\* leave it undefined under 'update'.
C6_UuidBuildersDefaultWithoutOption ==
    \A k \in Validations :
        (/\ Builder(k).op \in {"uuid", "timeuuid"}
         /\ BuiltWith(k) \in {Undefined, EmptyObject}
         /\ AbsentIn(k)) =>
            /\ calls[k].args[2] = Context("create") =>
                   Property(k) \in (IF Builder(k).op = "uuid" THEN V4s ELSE V1s)
            /\ calls[k].args[2] = Context("update") => Property(k) = Undefined

\* The date-family triggers, and when the claim says each fires.
DateTriggers == {"create", "update"}
DateFires(t, options) ==
    \/ t = "update" /\ options \in {Context("create"), Context("update")}
    \/ t = "create" /\ options = Context("create")

\* C7: a timestamp validator with trigger 'update' defaults an absent value
\* when the operation is 'create' or 'update', with trigger 'create' only when
\* it is 'create'; in every other combination nothing is produced and the
\* field stays absent; no combination gives a validation error.
C7_DateDefaultFiresByTrigger ==
    \A k \in Validations : \A t \in DateTriggers :
        (/\ Builder(k).op = "timestamp"
         /\ BuiltWith(k) = Obj("default" :> Str(t))
         /\ AbsentIn(k)
         /\ IsObject(Get(calls[k].args[2], "context"))) =>
            /\ IsObject(Returned(k))
            /\ Get(Returned(k), "error") = Null
            /\ IF DateFires(t, calls[k].args[2])
               THEN Property(k) \in Timestamps
               ELSE Property(k) = Undefined

\* C7 witness: trigger 'update' produced a timestamp under operation 'create'.
C7_Witness ==
    \E k \in Validations :
        /\ Builder(k).op = "timestamp"
        /\ BuiltWith(k) = Obj("default" :> Str("update"))
        /\ AbsentIn(k) /\ calls[k].args[2] = Context("create")
        /\ Property(k) \in Timestamps

\* C8, as amended: a uuid or timeuuid validator with an explicit default
\* 'empty', 'v1' or 'v4' defaults an absent value only under operation
\* 'create': 'empty' gives the nil UUID, 'v1' and 'v4' both give a generated
\* UUID of the builder's version (v4 for uuid, v1 for timeuuid), whichever
\* version the trigger names; under any other operation the field stays absent.
UuidTriggers == {"empty", "v1", "v4"}
C9_DefaultsNeverThrow ==
    \A k \in Validations :
        (/\ BuiltWith(k) \in {Obj("default" :> Str(t)) : t \in DateTriggers \cup UuidTriggers}
         /\ AbsentIn(k)) =>
            /\ ~IsThrow(Returned(k))
            /\ Get(Returned(k), "error") = Null

(***************************************************************************)
(* JSON fields: json(), json(shape), map('', json()) and their validation. *)
(***************************************************************************)
Shapes == {Undefined, Obj("a" :> any("any"))}

\* The values of the repository's tests of json: an object, an array, a
\* string, true, and the falsy '', false, null; 0 with them.
JsonValues ==
    {Obj("a" :> Str("x")), Arr(<<Str("x"), Num(1)>>), Str("x"), Bool(TRUE),
     Str(""), Bool(FALSE), Null, Num(0)}

\* A value as the field itself, and as the value of a map's field.
JsonTargets ==
    {Obj("property" :> v) : v \in JsonValues}
        \cup {Obj("property" :> Obj("a" :> v)) : v \in JsonValues}

ValidateEnv == [now |-> 0, random |-> 0]

CallJson ==
    /\ Len(calls) < MaxJsonCalls
    /\ \E shape \in Shapes :
           Record("json", 0, <<shape>>, [this |-> Undefined, ret |-> json(shape)])

CallMap ==
    /\ Len(calls) < MaxJsonCalls
    /\ \E j \in 1..Len(heap) :
           Record("map", 0, <<Str(""), Ref(j)>>,
                  [this |-> Undefined, ret |-> map(Str(""), heap[j])])

CallValidateJson ==
    /\ Len(calls) < MaxJsonCalls
    /\ \E i \in 1..Len(heap), target \in JsonTargets :
           Record("validate", i, <<target, Context("create")>>,
                  [this |-> heap[i],
                   ret |-> validate(target, heap[i], Context("create"), ValidateEnv)])

InitJson ==
    /\ heap = <<>>
    /\ calls = <<>>

NextJson ==
    \/ CallJson
    \/ CallMap
    \/ CallValidateJson

SpecJson == InitJson /\ [][NextJson]_vars

\* The value given for the property in validate call k.
Given(k) == Get(calls[k].args[1], "property")
Succeeded(k) == IsObject(Returned(k)) /\ Get(Returned(k), "error") = Null

\* C10: a json validator returns every successfully validated value v as
\* JSON.stringify(v), as a field and as the value type of a map, the falsy
\* '', false and null included.
C10_JsonValidatesToItsJsonText ==
    \A k \in Validations :
        /\ (Builder(k).op = "json" /\ Succeeded(k)) =>
               Property(k) = JSON_stringify(Given(k))
        /\ (/\ Builder(k).op = "map"
            /\ Origin(Builder(k).args[2].ref).op = "json"
            /\ Succeeded(k)) =>
               \A f \in DOMAIN Given(k).o :
                   Get(Property(k), f) = JSON_stringify(Get(Given(k), f))

(***************************************************************************)
(* Collections: list(type) and set(type) over text and boolean elements,   *)
(* validated against full sequences and partial-update descriptors.        *)
(***************************************************************************)
\* Elements: strings, the empty string, null, a number, a boolean, and a
\* missing entry of a sparse array.
Elements == {Str("x"), Str(""), Null, Num(1), Bool(TRUE), Undefined}

Sequences == {Arr(a) : a \in UNION {[1..n -> Elements] : n \in 0..MaxLen}}

DescriptorKeys == {"prepend", "append", "remove", "index", "add", "bogus"}

\* What a key of a descriptor may hold: sequences, mappings, a number.
DescriptorValues ==
    {Arr(<<Str("x")>>), Arr(<<Str("x"), Str("x")>>), Arr(<<Null>>), EmptyArray, Num(1),
     Obj("0" :> Str("x")), Obj("007" :> Str("")), Obj("a" :> Str("x")),
     Obj("-1" :> Str("x")), Obj("0" :> Num(1)), EmptyObject}

\* Descriptors of no key, of one key, and of two keys that hold a sequence
\* or a number each.
Descriptors ==
    {EmptyObject}
        \cup {Obj(k :> v) : k \in DescriptorKeys, v \in DescriptorValues}
        \cup {Obj(p[1] :> v @@ p[2] :> w) :
                 p \in {q \in DescriptorKeys \X DescriptorKeys : q[1] # q[2]},
                 v \in {Arr(<<Str("x")>>), Num(1)}, w \in {Arr(<<Str("x")>>), Num(1)}}

CollectionTargets == {Obj("property" :> v) : v \in Sequences \cup Descriptors}

CallText ==
    /\ Len(calls) < MaxCollectionCalls
    /\ Record("text", 0, <<>>, [this |-> Undefined, ret |-> text])

CallBoolean ==
    /\ Len(calls) < MaxCollectionCalls
    /\ Record("boolean", 0, <<>>, [this |-> Undefined, ret |-> boolean])

CallList ==
    /\ Len(calls) < MaxCollectionCalls
    /\ \E j \in 1..Len(heap) :
           Record("list", 0, <<Ref(j)>>, [this |-> Undefined, ret |-> list(heap[j])])

CallSet ==
    /\ Len(calls) < MaxCollectionCalls
    /\ \E j \in 1..Len(heap) :
           Record("set", 0, <<Ref(j)>>, [this |-> Undefined, ret |-> set(heap[j])])

CallValidateCollection ==
    /\ Len(calls) < MaxCollectionCalls
    /\ \E i \in 1..Len(heap), target \in CollectionTargets :
           /\ Origin(i).op \in {"list", "set"}
           /\ Record("validate", i, <<target, Context("create")>>,
                     [this |-> heap[i],
                      ret |-> validate(target, heap[i], Context("create"), ValidateEnv)])

InitCollections ==
    /\ heap = <<>>
    /\ calls = <<>>

NextCollections ==
    \/ CallText
    \/ CallBoolean
    \/ CallList
    \/ CallSet
    \/ CallValidateCollection

SpecCollections == InitCollections /\ [][NextCollections]_vars

\* The element type of the list or set validator of validate call k, and
\* what it makes of one element.
ElementType(k) == heap[Builder(k).args[1].ref]
ValidElement(type, el) ==
    /\ el # Undefined
    /\ ~_validate(type, el, Null, Context("create"), ValidateEnv).error

\* A sequence of valid elements; a mapping from digit names to valid elements.
ValidSequence(type, v) ==
    IsArray(v) /\ \A i \in 1..Len(v.a) : ValidElement(type, v.a[i])
ValidIndex(type, v) ==
    IsObject(v) /\ \A f \in DOMAIN v.o : f \in DigitNames /\ ValidElement(type, v.o[f])
Distinct(v) == \A i, j \in 1..Len(v.a) : i # j => v.a[i] # v.a[j]

ListKeys == {"prepend", "append", "remove", "index"}
SetKeys == {"add", "remove"}

\* A partial-update descriptor as the claim describes it: recognized keys
\* only, one at least, each holding a well-formed value.
IsDescriptor(op, type, d) ==
    /\ DOMAIN d.o # {}
    /\ DOMAIN d.o \subseteq (IF op = "list" THEN ListKeys ELSE SetKeys)
    /\ \A key \in DOMAIN d.o :
           IF op = "list" /\ key = "index"
           THEN ValidIndex(type, d.o[key])
           ELSE ValidSequence(type, d.o[key])

\* The same, the sequences of a set descriptor holding no element twice.
IsDescriptorOfDistinct(op, type, d) ==
    /\ IsDescriptor(op, type, d)
    /\ op = "set" => \A key \in DOMAIN d.o : Distinct(d.o[key])

\* C11, as amended: a non-array object is valid for a list (resp. set)
\* validator exactly when its keys are among prepend/append/remove/index
\* (resp. add/remove), one at least is present, and each holds a well-formed
\* value: a sequence of valid elements, which for a set holds no element
\* twice, or for index a mapping from digit names to valid elements.
C11_DescriptorValidIffWellFormedAndDistinct ==
    \A k \in Validations :
        (Builder(k).op \in {"list", "set"} /\ IsObject(Given(k))) =>
            (Succeeded(k) <=>
                 IsDescriptorOfDistinct(Builder(k).op, ElementType(k), Given(k)))

\* C11 witness: {remove: ['x']} was accepted by a list of text.
C11_Witness ==
    \E k \in Validations :
        /\ Builder(k).op = "list" /\ Origin(Builder(k).args[1].ref).op = "text"
        /\ Given(k) = Obj("remove" :> Arr(<<Str("x")>>))
        /\ Succeeded(k)

\* C11 as stated: a non-array object is valid for a list (resp. set) validator
\* exactly when it is a partial-update descriptor, each present key holding a
\* sequence of valid elements (for index a mapping from digit names to them).
C11_DescriptorValidIffWellFormed ==
    \A k \in Validations :
        (Builder(k).op \in {"list", "set"} /\ IsObject(Given(k))) =>
            (Succeeded(k) <=> IsDescriptor(Builder(k).op, ElementType(k), Given(k)))

\* C12: a full sequence whose elements all satisfy the element type is
\* accepted by a list with or without duplicates, and by a set exactly when
\* no two elements are equal; a sequence with a missing, null or wrongly
\* typed element is rejected by both.
C12_SequencesListAllowsDuplicatesSetDoesNot ==
    \A k \in Validations :
        (Builder(k).op \in {"list", "set"} /\ IsArray(Given(k))) =>
            IF ValidSequence(ElementType(k), Given(k))
            THEN IF Builder(k).op = "list" THEN Succeeded(k)
                 ELSE Succeeded(k) <=> Distinct(Given(k))
            ELSE ~Succeeded(k)

\* C12 witness: ['x', 'x'] was rejected by a set of text.
C12_Witness ==
    \E k \in Validations :
        /\ Builder(k).op = "set" /\ Origin(Builder(k).args[1].ref).op = "text"
        /\ Given(k) = Arr(<<Str("x"), Str("x")>>)
        /\ ~Succeeded(k)

(***************************************************************************)
(* Building by name: create(type, obj), map(K(), V()), and toCql() of what *)
(* was built.                                                              *)
(***************************************************************************)
\* create('map', {mapType: [k, v]}), create('list', {listType: e}),
\* create('set', {setType: e}) and create(name) over the scalar names.
CreateArgs ==
    {<<Str("map"), Obj("mapType" :> Arr(<<Str(k), Str(v)>>))>> :
         k \in ScalarNames, v \in ScalarNames}
        \cup {<<Str("list"), Obj("listType" :> Str(e))>> : e \in ScalarNames}
        \cup {<<Str("set"), Obj("setType" :> Str(e))>> : e \in ScalarNames}
        \cup {<<Str(n), Undefined>> : n \in ScalarNames}

\* The value types of the maps built directly.
ValueNames == {"text", "json", "uuid"}

CallCreate ==
    /\ Len(calls) < MaxCreateCalls
    /\ Len(heap) < MaxBuilt
    /\ \E a \in CreateArgs :
           Record("create", 0, a, [this |-> Undefined, ret |-> create(a[1], a[2])])

\* map(cql.k(), cql.v()): the arguments are validators built in place.
CallMapOf ==
    /\ Len(calls) < MaxCreateCalls
    /\ Len(heap) < MaxBuilt
    /\ \E k \in ScalarNames, v \in ValueNames :
           Record("map", 0, <<cql(Str(k), <<>>), cql(Str(v), <<>>)>>,
                  [this |-> Undefined,
                   ret |-> map(cql(Str(k), <<>>), cql(Str(v), <<>>))])

\* The validators of the fields of an object schema: with a `cql`
\* annotation, and plain ones of the engine.
FieldValidators == {text, int, json(Undefined), string, any("any")}

\* joi.object({a: .., b: ..}) of one and of two fields.
ObjectShapes ==
    {Obj("a" :> v) : v \in FieldValidators}
        \cup {Obj("a" :> v @@ "b" :> w) : v \in FieldValidators, w \in FieldValidators}

\* json(), json({}) and json of declared fields.
JsonShapes == {Undefined, EmptyObject, Obj("a" :> any("any")), Obj("a" :> text)}

CallObject ==
    /\ Len(calls) < MaxCreateCalls
    /\ Len(heap) < MaxBuilt
    /\ \E shape \in ObjectShapes :
           Record("object", 0, <<shape>>, [this |-> Undefined, ret |-> keys(object, shape)])

CallJsonOf ==
    /\ Len(calls) < MaxCreateCalls
    /\ Len(heap) < MaxBuilt
    /\ \E shape \in JsonShapes :
           Record("json", 0, <<shape>>, [this |-> Undefined, ret |-> json(shape)])

CallToCql ==
    /\ Len(calls) < MaxCreateCalls
    /\ \E i \in 1..Len(heap) : Record("toCql", i, <<>>, toCql(heap[i]))

InitCreate ==
    /\ heap = <<>>
    /\ calls = <<>>

NextCreate ==
    \/ CallCreate
    \/ CallMapOf
    \/ CallObject
    \/ CallJsonOf
    \/ CallToCql

SpecCreate == InitCreate /\ [][NextCreate]_vars

\* The toCql calls of the log; the scalar builder a validator came from; the
\* canonical type of the validator a scalar builder gives.
Exports == {k \in 1..Len(calls) : calls[k].op = "toCql"}
NameOf(validator) == CHOOSE n \in ScalarNames : cql(Str(n), <<>>) = validator
CanonicalType(n) == Get(findMeta(cql(Str(n), <<>>), Undefined), "type")

\* C13, as amended: the annotation of map(K, V) has mapType ['text',
\* canonical type of V] whatever K is, and create('map', {mapType: [k, v]})
\* exports ['text', canonical type of the validator v names].
C13_MapTypeIsTextAndValueType ==
    \A k \in Exports :
        /\ Builder(k).op = "map" =>
               Get(Returned(k), "mapType")
                   = Arr(<<Str("text"),
                           CanonicalType(NameOf(Builder(k).args[2]))>>)
        /\ (Builder(k).op = "create" /\ Builder(k).args[1] = Str("map")) =>
               Get(Returned(k), "mapType")
                   = Arr(<<Str("text"),
                           CanonicalType(Index(Get(Builder(k).args[2], "mapType"), 1).s)>>)

\* C13 witness: create('map', {mapType: ['int', 'json']}) exported
\* mapType ['text', 'text'].
C13_Witness ==
    \E k \in Exports :
        /\ Builder(k).op = "create"
        /\ Builder(k).args
               = <<Str("map"), Obj("mapType" :> Arr(<<Str("int"), Str("json")>>))>>
        /\ Get(Returned(k), "mapType") = Arr(<<Str("text"), Str("text")>>)

\* C13 as stated: the annotation of map(K, V) has mapType [name of K,
\* canonical type of V], and create('map', {mapType: [k, v]}) exports [k, v].
C13_MapTypeIsKeyAndValueType ==
    \A k \in Exports :
        /\ Builder(k).op = "map" =>
               Get(Returned(k), "mapType")
                   = Arr(<<Str(NameOf(Builder(k).args[1])),
                           CanonicalType(NameOf(Builder(k).args[2]))>>)
        /\ (Builder(k).op = "create" /\ Builder(k).args[1] = Str("map")) =>
               Get(Returned(k), "mapType") = Get(Builder(k).args[2], "mapType")

(***************************************************************************)
(* The canonical transforms: serialize and deserialize of the annotation   *)
(* toCql() returns for a json, map, list or set validator.                 *)
(***************************************************************************)
ElementNames == {"text", "json"}
CollectionNames == {"map", "list", "set"}

\* Application values: null, arrays, mappings, partial-update descriptors
\* and the scalars a json field takes.
SerializeData ==
    {Null, EmptyArray, EmptyObject, Arr(<<Str("x")>>), Arr(<<Str("x"), Str("")>>),
     Arr(<<Obj("a" :> Str("x"))>>), Obj("a" :> Str("x")), Obj("a" :> Arr(<<Str("x")>>)),
     Obj("append" :> Arr(<<Str("x")>>)),
     Obj("append" :> Arr(<<Str("x")>>) @@ "remove" :> Arr(<<Str("")>>)),
     Obj("add" :> Arr(<<Str("x")>>)), Obj("index" :> Obj("0" :> Str("x"))),
     Str("x"), Str(""), Bool(TRUE), Num(0)}

\* Stored values: null, a descriptor of JSON texts, and what serialize
\* returned earlier in the log.
Stored == {calls[k].ret : k \in {h \in 1..Len(calls) : calls[h].op = "serialize"}}
DeserializeData == {Null, Obj("append" :> Arr(<<Str("\"x\"")>>))} \cup Stored

CallElement ==
    /\ Len(calls) < MaxSerializeCalls
    /\ \E n \in ElementNames :
           Record(n, 0, <<>>, [this |-> Undefined, ret |-> cql(Str(n), <<>>)])

CallCollection ==
    /\ Len(calls) < MaxSerializeCalls
    /\ \E kind \in CollectionNames, j \in 1..Len(heap) :
           IF kind = "map"
           THEN Record(kind, 0, <<Str(""), Ref(j)>>,
                       [this |-> Undefined, ret |-> cql(Str(kind), <<Str(""), heap[j]>>)])
           ELSE Record(kind, 0, <<Ref(j)>>,
                       [this |-> Undefined, ret |-> cql(Str(kind), <<heap[j]>>)])

CallSerialize ==
    /\ Len(calls) < MaxSerializeCalls
    /\ \E i \in 1..Len(heap), data \in SerializeData :
           /\ Origin(i).op \in CollectionNames \cup {"json"}
           /\ Record("serialize", i, <<data>>,
                     [this |-> heap[i],
                      ret |-> call(Get(toCql(heap[i]).ret, "serialize"), data)])

CallDeserialize ==
    /\ Len(calls) < MaxSerializeCalls
    /\ \E i \in 1..Len(heap), data \in DeserializeData :
           /\ Origin(i).op \in CollectionNames \cup {"json"}
           /\ ~IsThrow(data)
           /\ Record("deserialize", i, <<data>>,
                     [this |-> heap[i],
                      ret |-> call(Get(toCql(heap[i]).ret, "deserialize"), data)])

InitSerialize ==
    /\ heap = <<>>
    /\ calls = <<>>

NextSerialize ==
    \/ CallElement
    \/ CallCollection
    \/ CallSerialize
    \/ CallDeserialize

SpecSerialize == InitSerialize /\ [][NextSerialize]_vars

\* The serialize and deserialize calls of the log; what was given to call k;
\* the heap index of the element (or value) type of the collection validator i.
Transforms == {k \in 1..Len(calls) : calls[k].op \in {"serialize", "deserialize"}}
Data(k) == calls[k].args[1]
ElementIndex(i) ==
    IF Origin(i).op = "map" THEN Origin(i).args[2].ref ELSE Origin(i).args[1].ref

\* The element type's own transform in the direction dir applied to v, v
\* itself when the element type declares none.
ElementTransform(i, dir, v) ==
    LET handler == Get(findMeta(heap[ElementIndex(i)], Undefined), dir)
    IN  IF Truthy(handler) THEN call(handler, v) ELSE v

\* C14: on null input the canonical serialize and deserialize of a map return
\* {} and those of a list or a set return [], whether or not the element
\* type has transforms of its own.
C14_NullGivesEmptyCollection ==
    \A k \in Transforms :
        Data(k) = Null =>
            /\ Builder(k).op = "map" => Returned(k) = EmptyObject
            /\ Builder(k).op \in {"list", "set"} => Returned(k) = EmptyArray

\* C14 witness: a list of json deserialized null to [], the element type
\* having a transform of its own.
C14_Witness ==
    \E k \in Transforms :
        /\ calls[k].op = "deserialize"
        /\ Builder(k).op = "list"
        /\ Origin(ElementIndex(calls[k].this)).op = "json"
        /\ Data(k) = Null
        /\ Returned(k) = EmptyArray

\* An application value of the shape of validator i: a string for text, any
\* JSON value but null for json, a mapping of values of the value type's
\* shape for a map, an array of values of the element type's shape for a
\* list or a set.
RECURSIVE Shaped(_, _)
Shaped(i, x) ==
    CASE Origin(i).op = "text" -> IsString(x)
      [] Origin(i).op = "json" -> x \in JsonUniverse \ {Null}
      [] Origin(i).op = "map" ->
             IsObject(x) /\ \A f \in DOMAIN x.o : Shaped(ElementIndex(i), x.o[f])
      [] OTHER ->
             IsArray(x) /\ \A n \in 1..Len(x.a) : Shaped(ElementIndex(i), x.a[n])

\* C15: deserialize(serialize(x)) = x for every non-null application value x
\* of the validator's shape, and serialize(deserialize(s)) = s for every s
\* that serialize produced from such a value, for map, list, set and json.
C15_RoundTrip ==
    \A k \in Transforms : \A h \in Transforms :
        (/\ calls[k].op = "serialize" /\ calls[h].op = "deserialize"
         /\ k < h /\ calls[h].this = calls[k].this
         /\ Shaped(calls[k].this, Data(k))
         /\ Data(h) = Returned(k)) =>
            /\ Returned(h) = Data(k)
            /\ call(Get(toCql(heap[calls[h].this]).ret, "serialize"), Returned(h))
                   = Data(h)

\* C15 witness: a map of json serialized {a: ['x']} to {a: '["x"]'} and
\* deserialized that back.
C15_Witness ==
    \E k \in Transforms : \E h \in Transforms :
        /\ calls[k].op = "serialize" /\ calls[h].op = "deserialize"
        /\ k < h /\ calls[h].this = calls[k].this
        /\ Builder(k).op = "map"
        /\ Origin(ElementIndex(calls[k].this)).op = "json"
        /\ Data(k) = Obj("a" :> Arr(<<Str("x")>>))
        /\ Returned(k) = Obj("a" :> Str("[\"x\"]"))
        /\ Data(h) = Returned(k)
        /\ Returned(h) = Data(k)

\* A full array, and a partial-update descriptor, as their shapes go.
IsSequenceShape(x) == IsArray(x)
IsDescriptorShape(x) ==
    /\ IsObject(x)
    /\ DOMAIN x.o # {}
    /\ DOMAIN x.o \subseteq ListKeys \cup SetKeys
    /\ \A key \in DOMAIN x.o : IF key = "index" THEN IsObject(x.o[key]) ELSE IsArray(x.o[key])

\* C16: serialize and deserialize of a list or set keep the shape: an array
\* comes back as the array of its transformed elements, a descriptor as a
\* descriptor of the same keys whose sequences hold the transformed
\* elements, also when the element type has transforms of its own.
C16_TransformsKeepTheShape ==
    \A k \in Transforms :
        Builder(k).op \in {"list", "set"} =>
            LET i == calls[k].this
                dir == calls[k].op
                x == Data(k)
            IN  /\ IsSequenceShape(x) =>
                       Returned(k) = Arr([n \in 1..Len(x.a) |-> ElementTransform(i, dir, x.a[n])])
                /\ IsDescriptorShape(x) =>
                       Returned(k)
                           = Obj([key \in DOMAIN x.o |->
                                     IF key = "index"
                                     THEN Obj([f \in DOMAIN x.o[key].o |->
                                                  ElementTransform(i, dir, x.o[key].o[f])])
                                     ELSE Arr([n \in 1..Len(x.o[key].a) |->
                                                  ElementTransform(i, dir, x.o[key].a[n])])])

(***************************************************************************)
(* Claims about toCql() of object schemas and of json validators, checked  *)
(* where validators are built by name and exported.                        *)
(***************************************************************************)
\* A validator carries a `cql` annotation.
Carries(validator) ==
    \E i \in 1..Len(validator.meta) : "cql" \in DOMAIN validator.meta[i].o

\* C17: toCql() on an object schema with declared fields returns a mapping
\* with an entry for exactly the fields whose validator carries a `cql`
\* annotation; a field of a plain validator is no key of the mapping.
C17_ExportHasOnlyCqlFields ==
    \A k \in Exports :
        Builder(k).op = "object" =>
            LET shape == Builder(k).args[1]
            IN  /\ IsObject(Returned(k))
                /\ DOMAIN Returned(k).o = {f \in DOMAIN shape.o : Carries(shape.o[f])}

\* C18: toCql() of json(shape) is the annotation {cql: true, type: 'text',
\* serialize: JSON.stringify, deserialize: JSON.parse} for every shape:
\* absent, empty, or with declared fields.
C18_JsonExportsTextAnnotation ==
    \A k \in Exports :
        Builder(k).op = "json" => Returned(k) = JsonAnnotation

(***************************************************************************)
(* Integers: bigint, counter and int are built and values of the fixtures  *)
(* and around the bounds are validated against them.                       *)
(***************************************************************************)
NumberStrings == {Str(Join(cs)) : cs \in NumeralTexts} \cup {Str("a")}

\* 2^53, 2^63 (what the literal 9223372036854775807 is as a double), 2^31,
\* -2^31 - 1 and the numbers of the fixtures.
Numbers ==
    {Finite(FALSE, <<0>>, <<>>), Finite(FALSE, <<1>>, <<>>), Finite(TRUE, <<1>>, <<>>),
     Finite(FALSE, <<1>>, <<5>>), Finite(TRUE, <<1>>, <<5>>),
     MaxSafeInteger, Finite(TRUE, MaxSafeInteger.int, <<>>),
     Finite(FALSE, <<9, 0, 0, 7, 1, 9, 9, 2, 5, 4, 7, 4, 0, 9, 9, 2>>, <<>>),
     Finite(FALSE, Int64MinDigits, <<>>),
     Int32Max, Int32Min,
     Finite(TRUE, Int32Max.int, <<>>),
     Finite(FALSE, Int32Min.int, <<>>),
     Finite(TRUE, <<2, 1, 4, 7, 4, 8, 3, 6, 4, 9>>, <<>>),
     Finite(FALSE, Int32Max.int, <<5>>),
     Infinity(FALSE), Infinity(TRUE), NaN}

NumberData == NumberStrings \cup Numbers \cup {Null, Bool(TRUE), EmptyObject, Arr(<<>>)}

CallBigint ==
    /\ Len(calls) < MaxNumberCalls
    /\ Record("bigint", 0, <<>>, [this |-> Undefined, ret |-> bigint])

CallCounter ==
    /\ Len(calls) < MaxNumberCalls
    /\ Record("counter", 0, <<>>, [this |-> Undefined, ret |-> counter])

CallInt32 ==
    /\ Len(calls) < MaxNumberCalls
    /\ Record("int", 0, <<>>, [this |-> Undefined, ret |-> int])

CallValidateNumber ==
    /\ Len(calls) < MaxNumberCalls
    /\ \E i \in 1..Len(heap), v \in NumberData :
           Record("validate", i, <<Obj("property" :> v), Undefined>>,
                  [this |-> heap[i],
                   ret |-> validate(Obj("property" :> v), heap[i], Undefined, ValidateEnv)])

InitNumbers ==
    /\ heap = <<>>
    /\ calls = <<>>

NextNumbers ==
    \/ CallBigint
    \/ CallCounter
    \/ CallInt32
    \/ CallValidateNumber

SpecNumbers == InitNumbers /\ [][NextNumbers]_vars

\* A validate call accepted the value it was given.
Accepted(k) == Get(Returned(k), "error") = Null

\* The whole string is a dash at most and one to nineteen digits, and the
\* integer it writes is between -2^63 and 2^63 - 1.
WithinLimit(digits, limit) ==
    /\ Len(digits) \in 1..19
    /\ AllDigits(digits)
    /\ DigitsLessEq(StripLeading([i \in 1..Len(digits) |-> DigitOf(digits[i])]), limit)
WithinInt64Chars(cs) ==
    IF cs # <<>> /\ Head(cs) = "-"
    THEN WithinLimit(Tail(cs), Int64MinDigits)
    ELSE WithinLimit(cs, Int64MaxDigits)
WithinInt64(s) == WithinInt64Chars(CharsOf(s))

\* C19: bigint and counter accept a string only when it is a dash at most
\* and one to nineteen digits and lies within the 64 bit signed bound (so
\* longer strings, extra leading characters, thousands separators and the
\* unicode minus are rejected), and they reject the infinities.
C19_Int64StringsWithinBound ==
    \A k \in Validations :
        Builder(k).op \in {"bigint", "counter"} =>
            /\ (IsString(Given(k)) /\ Accepted(k)) => WithinInt64(Given(k).s)
            /\ Given(k) \in {Infinity(FALSE), Infinity(TRUE)} => ~Accepted(k)

\* An integer n with -2^31 <= n <= 2^31 - 1.
IsInt32(n) ==
    /\ IsNumber(n)
    /\ n.kind = "finite"
    /\ n.frac = <<>>
    /\ IF n.neg THEN DigitsLessEq(n.int, Int32Min.int) ELSE DigitsLessEq(n.int, Int32Max.int)

\* C20: int accepts a value if and only if it is an integer n, given as a
\* number or as a numeral string converting to n, with -2^31 <= n <= 2^31 - 1:
\* both bounds are accepted, -2^31 - 1 and 2^31 are rejected, and so are
\* numbers with a fraction and values that are no number.
C20_IntAcceptsInt32 ==
    \A k \in Validations :
        Builder(k).op = "int" =>
            /\ Accepted(k) <=> IsInt32(toNumber(Given(k)))
            /\ Given(k) \in {Int32Max, Int32Min,
                             Str(Join(Numeral(FALSE, Int32Max.int))),
                             Str(Join(Numeral(TRUE, Int32Min.int)))} => Accepted(k)
            /\ Given(k) \in {Finite(FALSE, Int32Min.int, <<>>),
                             Finite(TRUE, <<2, 1, 4, 7, 4, 8, 3, 6, 4, 9>>, <<>>),
                             Str(Join(Numeral(FALSE, Int32Min.int))),
                             Str(Join(Numeral(TRUE, <<2, 1, 4, 7, 4, 8, 3, 6, 4, 9>>))),
                             Finite(FALSE, <<1>>, <<5>>), Str("1.5"),
                             Str(""), Str("a"), EmptyObject, Arr(<<>>), Null,
                             Bool(TRUE), NaN, Infinity(FALSE), Infinity(TRUE)}
                   => ~Accepted(k)

\* C20 witness: int was given the string of its lower bound and accepted it.
C20_Witness ==
    \E k \in Validations :
        /\ Builder(k).op = "int"
        /\ Given(k) = Str("-2147483648")
        /\ Accepted(k)

(***************************************************************************)
(* Dispatch by name: create(type, options) with and without nullable, over *)
(* names that are builders and names that are not, and the validators it   *)
(* returns put to work.                                                    *)
(***************************************************************************)
BuilderNames == ScalarNames \cup {"map", "list", "set"}

\* A name that is no property of types.cql, and two that it inherits.
OtherNames == {"bogus", "toString", "constructor"}

\* Sub-type names given to list, set and map.
SubNames == {"text", "json", "uuid", "bogus", "toString"}

Nullable == Obj("nullable" :> Bool(TRUE))
WithNullable(obj, flag) == IF flag THEN Obj(obj.o @@ Nullable.o) ELSE obj

DispatchArgs ==
    {<<Str(n), o>> : n \in ScalarNames \cup OtherNames,
                     o \in {Undefined, EmptyObject, Nullable, Obj("nullable" :> Bool(FALSE))}}
        \cup {<<Str(n), Undefined>> : n \in {"map", "list", "set"}}
        \cup {<<Str("list"), WithNullable(Obj("listType" :> Str(e)), f)>> :
                 e \in SubNames, f \in BOOLEAN}
        \cup {<<Str("set"), WithNullable(Obj("setType" :> Str(e)), f)>> :
                 e \in SubNames, f \in BOOLEAN}
        \cup {<<Str("map"), WithNullable(Obj("mapType" :> Arr(<<Str(e[1]), Str(e[2])>>)), f)>> :
                 e \in SubNames \X SubNames, f \in BOOLEAN}

\* Values given to the validators create returned.
DispatchData ==
    {Null, Str("x"), Str(""), NilUuid, Num(1), Bool(TRUE), EmptyObject,
     Obj("a" :> Str("x")), Nullable, Arr(<<>>), Arr(<<Str("x")>>)}

CallCreateWith ==
    /\ Len(calls) < MaxDispatchCalls
    /\ Len(heap) < MaxDispatched
    /\ \E a \in DispatchArgs :
           Record("create", 0, a, [this |-> Undefined, ret |-> create(a[1], a[2])])

CallValidateCreated ==
    /\ Len(calls) < MaxDispatchCalls
    /\ \E i \in 1..Len(heap), v \in DispatchData :
           Record("validate", i, <<Obj("property" :> v), Context("create")>>,
                  [this |-> heap[i],
                   ret |-> validate(Obj("property" :> v), heap[i], Context("create"),
                                    ValidateEnv)])

InitDispatch ==
    /\ heap = <<>>
    /\ calls = <<>>

NextDispatch ==
    \/ CallCreateWith
    \/ CallValidateCreated

SpecDispatch == InitDispatch /\ [][NextDispatch]_vars

\* A validator accepts a value.
Accepts(schema, v) ==
    Get(validate(Obj("property" :> v), schema, Context("create"), ValidateEnv), "error") = Null

\* The options without nullable, and the nullable option set.
IsNullable(obj) == Truthy(obj) /\ Truthy(Get(obj, "nullable"))
WithoutNullable(obj) == Obj([f \in DOMAIN obj.o \ {"nullable"} |-> obj.o[f]])

\* The matching builder called directly: types.cql[type]() for a scalar,
\* list(types.cql[e]()), set(types.cql[e]()), map(types.cql[k](), types.cql[v]()).
Direct(type, obj) ==
    CASE type = Str("map") ->
             cql(type, <<cql(Index(Get(obj, "mapType"), 0), <<>>),
                         cql(Index(Get(obj, "mapType"), 1), <<>>)>>)
      [] type = Str("list") -> cql(type, <<cql(Get(obj, "listType"), <<>>)>>)
      [] type = Str("set") -> cql(type, <<cql(Get(obj, "setType"), <<>>)>>)
      [] OTHER -> cql(type, <<>>)

\* The validate calls on a validator that create returned for a builder name.
Dispatched ==
    {k \in Validations : Builder(k).op = "create" /\ Builder(k).args[1].s \in BuilderNames}

\* C21: with options.nullable set, create(typeName, options) returns a
\* validator that accepts null and otherwise exactly what the validator
\* built without nullable accepts; without nullable it accepts what the
\* matching builder called directly accepts.
C21_NullableAddsNullOnly ==
    \A k \in Dispatched :
        LET type == Builder(k).args[1]
            obj == Builder(k).args[2]
        IN  IF IsNullable(obj)
            THEN Accepted(k) <=>
                     \/ Given(k) = Null
                     \/ Accepts(create(type, WithoutNullable(obj)), Given(k))
            ELSE Accepted(k) <=> Accepts(Direct(type, obj), Given(k))

\* The type name, or a sub-type name, of a create call names no builder.
NamesNoBuilder(type, obj) ==
    \/ type.s \notin BuilderNames
    \/ type = Str("list") /\ IsObject(obj) /\ Get(obj, "listType").s \notin BuilderNames
    \/ type = Str("set") /\ IsObject(obj) /\ Get(obj, "setType").s \notin BuilderNames
    \/ /\ type = Str("map") /\ IsObject(obj)
       /\ \E i \in {0, 1} : Index(Get(obj, "mapType"), i).s \notin BuilderNames

\* C22: create with a type name, or a sub-type name, that names no builder
\* throws at construction and returns nothing.
C22_UnknownNameThrows ==
    \A k \in 1..Len(calls) :
        (calls[k].op = "create" /\ NamesNoBuilder(calls[k].args[1], calls[k].args[2]))
            => IsThrow(calls[k].ret)

(***************************************************************************)
(* Renames: registered through aliases(from, to) and through the engine's  *)
(* rename(from, to), on schemas that are also given keys and composed.     *)
(***************************************************************************)
RenamePairs ==
    {<<Str("id"), Str("album_id")>>, <<Str("id"), Str("other_id")>>,
     <<Str("key"), Str("album_id")>>}

CallAliasesOf ==
    /\ Len(calls) < MaxAliasCalls
    /\ \E i \in 1..Len(heap), args \in RenamePairs :
           Record("aliases", i, args, aliases(heap[i], args))

CallRename ==
    /\ Len(calls) < MaxAliasCalls
    /\ \E i \in 1..Len(heap), args \in RenamePairs :
           Record("rename", i, args, rename(heap[i], args))

CallKeyOf ==
    /\ Len(calls) < MaxAliasCalls
    /\ \E i \in 1..Len(heap), op \in KeySetters :
           Record(op, i, <<Str("a")>>,
                  IF op = "partitionKey" THEN partitionKey(heap[i], <<Str("a")>>)
                  ELSE clusteringKey(heap[i], <<Str("a")>>))

CallConcatOf ==
    /\ Len(calls) < MaxAliasCalls
    /\ \E i \in 1..Len(heap), j \in 1..Len(heap) :
           Record("concat", i, <<Ref(j)>>, concat(heap[i], heap[j]))

CallLookupKeysOf ==
    /\ Len(calls) < MaxAliasCalls
    /\ \E i \in 1..Len(heap) :
           Record("lookupKeys", i, <<Arr(<<Str("b")>>)>>,
                  lookupKeys(heap[i], <<Arr(<<Str("b")>>)>>))

\* joi.object({ id: cql.text(), name: joi.string() })
AlbumSchema == keys(object, Obj("id" :> text @@ "name" :> string))

InitAliases ==
    /\ heap = <<AlbumSchema>>
    /\ calls = <<>>

NextAliases ==
    \/ CallAliasesOf
    \/ CallRename
    \/ CallKeyOf
    \/ CallLookupKeysOf
    \/ CallConcatOf

SpecAliases == InitAliases /\ [][NextAliases]_vars

\* The renames registered in the derivation of schema n, as pairs <<from, to>>
\* in the order the derivation registers them.
RECURSIVE Renamed(_)
Renamed(n) ==
    IF ~HasOrigin(n) THEN <<>>
    ELSE LET c == Origin(n)
         IN  IF c.op = "concat" THEN Renamed(c.this) \o Renamed(c.args[1].ref)
             ELSE IF c.op \in {"aliases", "rename"}
             THEN Append(Renamed(c.this), <<c.args[1].s, c.args[2].s>>)
             ELSE Renamed(c.this)

\* aliases() of schema n.
AliasesOf(n) == aliases(heap[n], <<>>).ret

\* C23, as amended: aliases() returns a mapping with one entry for every
\* alias registered on the schema, through aliases(from, to) or through
\* rename(from, to), holding the canonical name of the last rename registered
\* for this alias; {} when none was registered; and partitionKey and
\* clusteringKey assignments do not change it.
C23_AliasesHoldsLastRenameOfEachAlias ==
    /\ \A n \in 1..Len(heap) :
           LET r == Renamed(n)
           IN  /\ IsObject(AliasesOf(n))
               /\ DOMAIN AliasesOf(n).o = {r[i][1] : i \in 1..Len(r)}
               /\ \A i \in 1..Len(r) :
                      (\A j \in (i + 1)..Len(r) : r[j][1] # r[i][1])
                          => AliasesOf(n).o[r[i][1]] = Str(r[i][2])
    /\ \A k \in 1..Len(calls) :
           (calls[k].op \in KeySetters /\ IsRef(calls[k].ret))
               => AliasesOf(calls[k].ret.ref) = AliasesOf(calls[k].this)

\* C23 witness: a schema with a rename registered through aliases and one
\* through rename was given a key, and aliases() returns both entries.
C23_Witness ==
    \E k \in 1..Len(calls) :
        /\ calls[k].op \in KeySetters
        /\ IsRef(calls[k].ret)
        /\ HasOrigin(calls[k].this)
        /\ HasOrigin(Origin(calls[k].this).this)
        /\ {Origin(calls[k].this).op, Origin(Origin(calls[k].this).this).op}
               = {"aliases", "rename"}
        /\ AliasesOf(calls[k].ret.ref)
               = Obj("id" :> Str("album_id") @@ "key" :> Str("album_id"))

\* C23 as stated: aliases() returns a mapping with an entry alias ->
\* canonical name for every rename registered on the schema; {} when none was
\* registered; and partitionKey and clusteringKey assignments do not change it.
C23_AliasesHoldsEveryRename ==
    /\ \A n \in 1..Len(heap) :
           LET r == Renamed(n)
           IN  /\ IsObject(AliasesOf(n))
               /\ DOMAIN AliasesOf(n).o = {r[i][1] : i \in 1..Len(r)}
               /\ \A i \in 1..Len(r) : AliasesOf(n).o[r[i][1]] = Str(r[i][2])
    /\ \A k \in 1..Len(calls) :
           (calls[k].op \in KeySetters /\ IsRef(calls[k].ret))
               => AliasesOf(calls[k].ret.ref) = AliasesOf(calls[k].this)

(***************************************************************************)
(* Defaults and supplied values, checked where timestamp, uuid and         *)
(* timeuuid validators are built with every trigger and validated under    *)
(* every operation.                                                        *)
(***************************************************************************)
\* What the validator's own type makes of a supplied value: timestamp turns
\* an ISO date string into the date it denotes, every other value stays.
AsValidated(k) ==
    IF Builder(k).op = "timestamp" /\ Given(k) \in Timestamps
    THEN [t |-> "date", iso |-> Given(k).s]
    ELSE Given(k)

\* Building generates nothing: a built validator holds no default or the
\* function that will compute it.
NothingGenerated ==
    \A n \in 1..Len(heap) :
        heap[n].default = Undefined \/ heap[n].default.t = "function"

MetadataItems == {"partitionKey", "clusteringKey", "lookupKeys", "aliases"}

\* The value the getter of a metadata item returns on schema s.
GetterOf(item, s) ==
    CASE item = "partitionKey" -> partitionKey(s, <<>>).ret
      [] item = "clusteringKey" -> clusteringKey(s, <<>>).ret
      [] item = "lookupKeys" -> lookupKeys(s, <<>>).ret
      [] item = "aliases" -> aliases(s, <<>>).ret

\* The metadata item a call assigns: rename assigns what aliases assigns.
ItemOf(op) == IF op = "rename" THEN "aliases" ELSE op

\* Call k assigned a metadata item and returned the derived schema.
AssignedItem(k) ==
    /\ calls[k].op \in MetadataItems \cup {"rename"}
    /\ Len(calls[k].args) > 0
    /\ IsRef(calls[k].ret)

\* C25: after any sequence of setter calls, assigning one of partitionKey,
\* clusteringKey, lookupKeys and aliases leaves the values the getters of the
\* other three return, and the field mapping toCql() returns, the same on the
\* derived schema as on the receiver.
C25_SettersAreIndependent ==
    \A k \in 1..Len(calls) :
        AssignedItem(k) =>
            LET receiver == heap[calls[k].this]
                derived == heap[calls[k].ret.ref]
            IN  /\ \A item \in MetadataItems \ {ItemOf(calls[k].op)} :
                       GetterOf(item, derived) = GetterOf(item, receiver)
                /\ toCql(derived).ret = toCql(receiver).ret

\* C25 witness: partitionKey was assigned on a schema whose clusteringKey and
\* lookupKeys are set and whose toCql() is a mapping of its fields, and the
\* derived schema returns the assigned partition key.
C25_Witness ==
    \E k \in 1..Len(calls) :
        /\ AssignedItem(k)
        /\ calls[k].op = "partitionKey"
        /\ GetterOf("clusteringKey", heap[calls[k].this]) = Str("a")
        /\ GetterOf("lookupKeys", heap[calls[k].this]) = Arr(<<Str("b")>>)
        /\ GetterOf("partitionKey", heap[calls[k].this]) = EmptyArray
        /\ GetterOf("partitionKey", heap[calls[k].ret.ref]) = Str("a")
        /\ IsObject(toCql(heap[calls[k].ret.ref]).ret)
        /\ DOMAIN toCql(heap[calls[k].ret.ref]).ret.o = {"id", "name"}

(***************************************************************************)
(* Keys assigned with falsy arguments: partitionKey and clusteringKey       *)
(* called with one argument, and read back with none.                      *)
(***************************************************************************)
FalsyKeys == {Str(""), Num(0), Bool(FALSE), Undefined, Null}
AssignedKeys == FalsyKeys \cup {Str("a")}

CallAssignKey ==
    /\ Len(calls) < MaxKeyCalls
    /\ \E i \in 1..Len(heap), op \in KeySetters, name \in AssignedKeys :
           Record(op, i, <<name>>,
                  IF op = "partitionKey" THEN partitionKey(heap[i], <<name>>)
                  ELSE clusteringKey(heap[i], <<name>>))

CallReadKey ==
    /\ Len(calls) < MaxKeyCalls
    /\ \E i \in 1..Len(heap), op \in KeySetters :
           Record(op, i, <<>>,
                  IF op = "partitionKey" THEN partitionKey(heap[i], <<>>)
                  ELSE clusteringKey(heap[i], <<>>))

InitKeys ==
    /\ heap = <<object>>
    /\ calls = <<>>

NextKeys ==
    \/ CallAssignKey
    \/ CallReadKey

SpecKeys == InitKeys /\ [][NextKeys]_vars

\* Call k assigned a falsy argument through a key setter.
AssignedFalsy(k) ==
    /\ calls[k].op \in KeySetters
    /\ Len(calls[k].args) = 1
    /\ ~Truthy(calls[k].args[1])

\* C26: assigning a falsy argument ('', 0, false, undefined passed
\* explicitly, or null) to partitionKey or clusteringKey gives a schema whose
\* getter returns the empty sequence [], as on a schema where the key was
\* never assigned, whatever was assigned before; the getter never returns
\* the falsy value.
C26_FalsyKeyReadsEmpty ==
    /\ \A k \in 1..Len(calls) :
           AssignedFalsy(k) =>
               /\ IsRef(calls[k].ret)
               /\ KeyGetter(calls[k].op, heap[calls[k].ret.ref]) = EmptyArray
               /\ KeyGetter(calls[k].op, heap[calls[k].ret.ref]) = KeyGetter(calls[k].op, object)
    /\ \A j \in 1..Len(calls) :
           (calls[j].op \in KeySetters /\ calls[j].args = <<>>)
               => calls[j].ret \notin FalsyKeys

\* C26 witness: a falsy argument other than null was assigned on a schema
\* whose getter returned 'a', and the getter of the derived schema returns [].
C26_Witness ==
    \E k \in 1..Len(calls) :
        /\ AssignedFalsy(k)
        /\ calls[k].args[1] # Null
        /\ IsRef(calls[k].ret)
        /\ KeyGetter(calls[k].op, heap[calls[k].this]) = Str("a")
        /\ KeyGetter(calls[k].op, heap[calls[k].ret.ref]) = EmptyArray

(***************************************************************************)
(* The version a uuid-family default generates, and what the annotation    *)
(* keeps of the option.                                                    *)
(***************************************************************************)
\* The explicit defaults other than 'empty'.
GeneratingTriggers == Triggers \ {"empty"}

\* The validators built by uuid or timeuuid with an explicit default.
UuidBuilt ==
    {n \in 1..Len(heap) :
        /\ HasOrigin(n)
        /\ Origin(n).op \in {"uuid", "timeuuid"}
        /\ Origin(n).args[1] \in {Obj("default" :> Str(t)) : t \in Triggers}}

\* The version of the builder of validator n.
VersionOf(n) == IF Origin(n).op = "uuid" THEN "v4" ELSE "v1"

TimestampAbsent(k, t, op) ==
    /\ Builder(k).op = "timestamp"
    /\ BuiltWith(k) = Obj("default" :> Str(t))
    /\ AbsentIn(k)
    /\ calls[k].args[2] = Context(op)

\* C28: timestamp({default: t}) validated with the field absent under
\* operation t produces a timestamp for every trigger t, 'delete' as well as
\* 'create' and 'update'; for a trigger other than 'update' it produces
\* nothing under an operation different from t.
C28_DateDefaultFiresOnEqualTrigger ==
    \A k \in Validations : \A t \in Triggers : \A op \in Operations :
        TimestampAbsent(k, t, op) =>
            /\ t = op => Property(k) \in Timestamps
            /\ (t # "update" /\ t # op) =>
                   Get(Returned(k), "error") = Null /\ Property(k) = Undefined

\* C28 witness: trigger 'delete' produced a timestamp under operation 'delete'.
C28_Witness ==
    \E k \in Validations :
        TimestampAbsent(k, "delete", "delete") /\ Property(k) \in Timestamps

====
